---- MODULE Spec2Model ----
(***************************************************************************)
(* Model of bible-checker: the USJ verse/chapter extraction of utils.js    *)
(* and the checkers built on it (chapter/verse integrity, missing verses,  *)
(* unmatched punctuation).                                                 *)
(*                                                                         *)
(* A USJ document is a tree whose items are plain strings or objects with  *)
(* marker / number / type / content.  Strings are modelled as sequences    *)
(* of one-character strings, objects as records; an absent field is "".    *)
(***************************************************************************)
EXTENDS Integers, Sequences, FiniteSets, TLC

VARIABLES pc, source, target, pairs, result,
          targetVerses, vIdx, cIdx, stack, toggles, openVerse, issues,
          frames, visited

vars == <<pc, source, target, pairs, result,
          targetVerses, vIdx, cIdx, stack, toggles, openVerse, issues,
          frames, visited>>

scanVars == <<targetVerses, vIdx, cIdx, stack, toggles, openVerse, issues>>

walkVars == <<frames, visited>>

----------------------------------------------------------------------------
(* Bounds of the model *)

\* longest flat document of the extraction specification
MaxDocLen == 4
\* longest target document of the integrity specification
MaxIntLen == 4
\* longest source / target documents of the missing-verse specification
MaxSrcLen == 3
MaxTgtLen == 3
\* number of items after the leading c/v markers in the punctuation documents
MaxPunctLen == 4

----------------------------------------------------------------------------
(* Generic helpers *)

Range(s) == {s[i] : i \in 1..Len(s)}

SeqsUpTo(S, n) == UNION {[1..k -> S] : k \in 0..n}

RECURSIVE Flatten(_)
Flatten(ss) == IF ss = <<>> THEN <<>> ELSE Head(ss) \o Flatten(Tail(ss))

----------------------------------------------------------------------------
(* Document model: the items of a USJ content array *)

Str(s) == [kind |-> "str", marker |-> "", number |-> "", type |-> "",
           text |-> s, content |-> <<>>]

Node(ty, m, n, c) == [kind |-> "node", marker |-> m, number |-> n, type |-> ty,
                      text |-> <<>>, content |-> c]

Chapter(n) == Node("chapter", "c", n, <<>>)
Verse(n) == Node("verse", "v", n, <<>>)
Para(c) == Node("para", "p", "", c)
Char(m, c) == Node("char", m, "", c)
Note(m, c) == Node("note", m, "", c)

\* JavaScript truthiness of a string-valued field ("" models undefined/null)
Truthy(x) == x # ""

\* String.prototype.trim, over the white space of the model
WhiteSpace == {" "}

RECURSIVE TrimStart(_)
TrimStart(s) ==
    IF s # <<>> /\ Head(s) \in WhiteSpace THEN TrimStart(Tail(s)) ELSE s

RECURSIVE TrimEnd(_)
TrimEnd(s) ==
    IF s # <<>> /\ s[Len(s)] \in WhiteSpace
    THEN TrimEnd(SubSeq(s, 1, Len(s) - 1)) ELSE s

Trim(s) == TrimEnd(TrimStart(s))

\* item.content.join(''): a string child contributes its text, an object
\* child is converted with String(), which gives "[object Object]"
RECURSIVE Join(_)
Join(content) ==
    IF content = <<>> THEN <<>>
    ELSE (IF Head(content).kind = "str" THEN Head(content).text
          ELSE <<"[object Object]">>) \o Join(Tail(content))

----------------------------------------------------------------------------
(* JavaScript objects used as maps: own string keys in insertion order.    *)
(* A map is a sequence of [key, val] entries in Object.entries order.      *)

MapKeys(m) == {m[i].key : i \in 1..Len(m)}

MapHas(m, k) == k \in MapKeys(m)

MapIndex(m, k) == CHOOSE i \in 1..Len(m) : m[i].key = k

MapGet(m, k) == m[MapIndex(m, k)].val

\* obj[k] = v for a key that is not an array index: a new key goes last,
\* an existing key keeps its place
MapPut(m, k, v) ==
    IF MapHas(m, k)
    THEN [m EXCEPT ![MapIndex(m, k)] = [key |-> k, val |-> v]]
    ELSE Append(m, [key |-> k, val |-> v])

----------------------------------------------------------------------------
(* utils.js extractVerses *)

\* the template literal `${currentChapter}:${currentVerse}`
VerseKey(c, v) == <<c, v>>

EVInit == [verses |-> <<>>, currentChapter |-> "", currentVerse |-> "",
           currentContent |-> <<>>]

\* verses[key] = currentContent.trim(), guarded by currentChapter && currentVerse
EVStore(st) ==
    IF Truthy(st.currentChapter) /\ Truthy(st.currentVerse)
    THEN [st EXCEPT !.verses =
            MapPut(st.verses, VerseKey(st.currentChapter, st.currentVerse),
                   Trim(st.currentContent))]
    ELSE st

RECURSIVE EVTraverse(_, _)
RECURSIVE EVItem(_, _)

EVItem(st, item) ==
    IF item.marker = "c" /\ Truthy(item.number)
    THEN [st EXCEPT !.currentChapter = item.number,
                    !.currentVerse = "",
                    !.currentContent = <<>>]
    ELSE IF item.marker = "v" /\ Truthy(item.number)
    THEN [EVStore(st) EXCEPT !.currentVerse = item.number,
                             !.currentContent = <<>>]
    ELSE IF item.kind = "str"
    THEN [st EXCEPT !.currentContent = @ \o item.text]
    ELSE IF item.type = "char"
    THEN [st EXCEPT !.currentContent = @ \o Join(item.content)]
    ELSE EVTraverse(st, item.content)

EVTraverse(st, content) ==
    IF content = <<>> THEN st
    ELSE EVTraverse(EVItem(st, Head(content)), Tail(content))

extractVerses(usj) == EVStore(EVTraverse(EVInit, usj)).verses

----------------------------------------------------------------------------
(* USJHandler.traverse: the callback is invoked on an item, then on the    *)
(* items of its content; the operator gives the sequence of invocations    *)

RECURSIVE traverse(_)
traverse(content) ==
    IF content = <<>> THEN <<>>
    ELSE <<Head(content)>> \o traverse(Head(content).content)
         \o traverse(Tail(content))

----------------------------------------------------------------------------
(* Numbers: parseInt(s, 10) and the conversion of a number to a string     *)

\* the value NaN; every other number of the model is a natural number
NaN == -1

parseInt(s) ==
    CASE s = "0" -> 0 [] s = "1" -> 1 [] s = "2" -> 2 [] s = "3" -> 3
      [] s = "10" -> 10 [] s = "01" -> 1
      [] OTHER -> NaN

NumToString(n) ==
    CASE n = 0 -> "0" [] n = 1 -> "1" [] n = 2 -> "2" [] n = 3 -> "3"
      [] n = 10 -> "10"
      [] OTHER -> "NaN"

\* a < b on numbers: false as soon as one side is NaN
NumLess(a, b) == a # NaN /\ b # NaN /\ a < b

\* a property key that is a canonical array index; Object.entries lists
\* these keys first, in ascending numeric order, whatever the insertion order
IsArrayIndex(k) == parseInt(k) # NaN /\ NumToString(parseInt(k)) = k

\* obj[k] = v for a new key k, any kind of key
ObjInsert(m, k, v) ==
    LET e == [key |-> k, val |-> v]
        before == {i \in 1..Len(m) :
                     /\ IsArrayIndex(m[i].key)
                     /\ parseInt(m[i].key) < parseInt(k)}
        n == Cardinality(before)
    IN IF IsArrayIndex(k)
       THEN SubSeq(m, 1, n) \o <<e>> \o SubSeq(m, n + 1, Len(m))
       ELSE Append(m, e)

----------------------------------------------------------------------------
(* utils.js extractChapterVerses *)

ECVInit == [chapters |-> <<>>, currentChapter |-> "", threw |-> FALSE]

\* mutant: every c marker starts a new sequence for its chapter
ECVItem_Restart(st, item) ==
    IF st.threw THEN st
    ELSE IF item.marker = "c" /\ Truthy(item.number)
    THEN [st EXCEPT !.currentChapter = item.number,
                    !.chapters = IF MapHas(@, item.number)
                                 THEN MapPut(@, item.number, <<>>)
                                 ELSE ObjInsert(@, item.number, <<>>)]
    ELSE IF item.marker = "v" /\ Truthy(item.number)
    THEN IF MapHas(st.chapters, st.currentChapter)
         THEN [st EXCEPT !.chapters[MapIndex(st.chapters, st.currentChapter)].val =
                             Append(@, parseInt(item.number))]
         ELSE [st EXCEPT !.threw = TRUE]
    ELSE st

\* the callback passed to handler.traverse; chapters[undefined].push raises
\* a TypeError when a v marker comes before any c marker
ECVItem(st, item) ==
    IF st.threw THEN st
    ELSE IF item.marker = "c" /\ Truthy(item.number)
    THEN [st EXCEPT !.currentChapter = item.number,
                    !.chapters = IF MapHas(@, item.number) THEN @
                                 ELSE ObjInsert(@, item.number, <<>>)]
    ELSE IF item.marker = "v" /\ Truthy(item.number)
    THEN IF MapHas(st.chapters, st.currentChapter)
         THEN [st EXCEPT !.chapters[MapIndex(st.chapters, st.currentChapter)].val =
                             Append(@, parseInt(item.number))]
         ELSE [st EXCEPT !.threw = TRUE]
    ELSE st

RECURSIVE ECVFold(_, _)
ECVFold(st, visits) ==
    IF visits = <<>> THEN st
    ELSE ECVFold(ECVItem(st, Head(visits)), Tail(visits))

\* the returned index, with threw set when the call raises instead
extractChapterVerses(text) ==
    LET st == ECVFold(ECVInit, traverse(text))
    IN [threw |-> st.threw, chapters |-> st.chapters]

----------------------------------------------------------------------------
(* utils.js checkChapterVerseIntegrity *)

\* the value undefined in a place where a string is expected
Undefined == <<"undefined">>

\* verses[`${chapter}:${verse}`]
VerseText(verses, c, v) ==
    IF MapHas(verses, VerseKey(c, v)) THEN MapGet(verses, VerseKey(c, v))
    ELSE Undefined

VIInit == [issues |-> <<>>, seen |-> {}, lastChapter |-> 0, lastVerse |-> 0]

\* mutant: the order comparison is not strict
VIVerse_NonStrict(st, chapter, verse, verses) ==
    LET text == VerseText(verses, NumToString(chapter), NumToString(verse))
        ooo == IF verse # NaN /\ st.lastVerse # NaN /\ verse <= st.lastVerse
               THEN <<[type |-> "out_of_order", chapter |-> chapter,
                       verse |-> verse, verse_text |-> text,
                       comment |-> "out-of-order verse"]>>
               ELSE <<>>
        dup == IF <<chapter, verse>> \in st.seen
               THEN <<[type |-> "duplicate", chapter |-> chapter,
                       verse |-> verse, verse_text |-> text,
                       comment |-> "duplicate verse"]>>
               ELSE <<>>
    IN [st EXCEPT !.issues = @ \o ooo \o dup,
                  !.seen = @ \cup {<<chapter, verse>>},
                  !.lastVerse = verse]

\* mutant: the duplicate test is an else-branch of the order test
VIVerse_ElseIf(st, chapter, verse, verses) ==
    LET text == VerseText(verses, NumToString(chapter), NumToString(verse))
        ooo == IF NumLess(verse, st.lastVerse)
               THEN <<[type |-> "out_of_order", chapter |-> chapter,
                       verse |-> verse, verse_text |-> text,
                       comment |-> "out-of-order verse"]>>
               ELSE <<>>
        dup == IF ooo = <<>> /\ <<chapter, verse>> \in st.seen
               THEN <<[type |-> "duplicate", chapter |-> chapter,
                       verse |-> verse, verse_text |-> text,
                       comment |-> "duplicate verse"]>>
               ELSE <<>>
    IN [st EXCEPT !.issues = @ \o ooo \o dup,
                  !.seen = @ \cup {<<chapter, verse>>},
                  !.lastVerse = verse]

\* body of the loop over versesInChapter
VIVerse(st, chapter, verse, verses) ==
    LET text == VerseText(verses, NumToString(chapter), NumToString(verse))
        ooo == IF NumLess(verse, st.lastVerse)
               THEN <<[type |-> "out_of_order", chapter |-> chapter,
                       verse |-> verse, verse_text |-> text,
                       comment |-> "out-of-order verse"]>>
               ELSE <<>>
        dup == IF <<chapter, verse>> \in st.seen
               THEN <<[type |-> "duplicate", chapter |-> chapter,
                       verse |-> verse, verse_text |-> text,
                       comment |-> "duplicate verse"]>>
               ELSE <<>>
    IN [st EXCEPT !.issues = @ \o ooo \o dup,
                  !.seen = @ \cup {<<chapter, verse>>},
                  !.lastVerse = verse]

RECURSIVE VIVerses(_, _, _, _)
VIVerses(st, chapter, versesInChapter, verses) ==
    IF versesInChapter = <<>> THEN st
    ELSE VIVerses(VIVerse(st, chapter, Head(versesInChapter), verses),
                  chapter, Tail(versesInChapter), verses)

\* body of the loop over Object.entries(chapterVerses)
VIChapter(st, entry, verses) ==
    LET chapter == parseInt(entry.key)
        ooo == IF NumLess(chapter, st.lastChapter)
               THEN <<[type |-> "out_of_order", chapter |-> chapter,
                       comment |-> "out-of-order chapter"]>>
               ELSE <<>>
        st1 == [st EXCEPT !.lastVerse = 0,
                          !.issues = @ \o ooo,
                          !.lastChapter = chapter]
    IN VIVerses(st1, chapter, entry.val, verses)

RECURSIVE VIChapters(_, _, _)
VIChapters(st, entries, verses) ==
    IF entries = <<>> THEN st
    ELSE VIChapters(VIChapter(st, Head(entries), verses), Tail(entries), verses)

validateIntegrity(chapterVerses, verses) ==
    VIChapters(VIInit, chapterVerses, verses).issues

\* the call raises when one of the two index extractions raises
checkChapterVerseIntegrity(src, tgt) ==
    LET sourceChapters == extractChapterVerses(src)
        targetChapters == extractChapterVerses(tgt)
        targetVerses_ == extractVerses(tgt)
    IN IF sourceChapters.threw \/ targetChapters.threw
       THEN [threw |-> TRUE, check |-> "chapter_verse_integrity", issues |-> <<>>]
       ELSE [threw |-> FALSE, check |-> "chapter_verse_integrity",
             issues |-> validateIntegrity(targetChapters.chapters, targetVerses_)]

----------------------------------------------------------------------------
(* utils.js detectMissingVerses *)

\* targetChapters[chapter] || []
TargetVersesOf(targetChapters, chapter) ==
    IF MapHas(targetChapters, chapter) THEN MapGet(targetChapters, chapter)
    ELSE <<>>

\* mutant: only the first missing verse is kept (find instead of filter)
MissingFilter_First(verses, tgtVerses) ==
    LET miss == {i \in 1..Len(verses) : verses[i] \notin Range(tgtVerses)}
    IN IF miss = {} THEN <<>>
       ELSE <<verses[CHOOSE i \in miss : \A j \in miss : i <= j]>>

\* mutant: the difference is taken in the other direction
MissingFilter_Swapped(verses, tgtVerses) ==
    SelectSeq(tgtVerses, LAMBDA v : v \notin Range(verses))

\* verses.filter((verse) => !targetVerses.includes(verse))
RECURSIVE MissingFilter(_, _)
MissingFilter(verses, tgtVerses) ==
    IF verses = <<>> THEN <<>>
    ELSE (IF Head(verses) \in Range(tgtVerses) THEN <<>> ELSE <<Head(verses)>>)
         \o MissingFilter(Tail(verses), tgtVerses)

\* the issues pushed for one entry of sourceChapters
DMVChapter(entry, targetChapters, sourceVerses) ==
    LET missingVerses ==
            MissingFilter(entry.val, TargetVersesOf(targetChapters, entry.key))
    IN [i \in 1..Len(missingVerses) |->
          [chapter |-> parseInt(entry.key),
           verse |-> missingVerses[i],
           verse_text |-> VerseText(sourceVerses, entry.key,
                                    NumToString(missingVerses[i])),
           comment |-> "Target is missing verse"]]

RECURSIVE DMVChapters(_, _, _)
DMVChapters(entries, targetChapters, sourceVerses) ==
    IF entries = <<>> THEN <<>>
    ELSE DMVChapter(Head(entries), targetChapters, sourceVerses)
         \o DMVChapters(Tail(entries), targetChapters, sourceVerses)

detectMissingVerses(src, tgt) ==
    LET sourceChapters == extractChapterVerses(src)
        targetChapters == extractChapterVerses(tgt)
        sourceVerses == extractVerses(src)
    IN IF sourceChapters.threw \/ targetChapters.threw
       THEN [threw |-> TRUE, check |-> "missing_verses", issues |-> <<>>]
       ELSE [threw |-> FALSE, check |-> "missing_verses",
             issues |-> DMVChapters(sourceChapters.chapters,
                                    targetChapters.chapters, sourceVerses)]

----------------------------------------------------------------------------
(* Documents of the extraction specification *)

\* text of the verse body
BodyChars == {"a", " "}
\* text that occurs only inside footnotes and cross-references
NoteChar == "n"

ChapterNumbers == {"1", "2"}
VerseNumbers == {"1", "2"}

FlatItems ==
    {Chapter(n) : n \in ChapterNumbers} \cup {Verse(n) : n \in VerseNumbers}
    \cup {Str(<<ch>>) : ch \in BodyChars}
    \cup {Char("w", <<Str(<<"a">>)>>),
          Note("f", <<Char("ft", <<Str(<<NoteChar>>)>>)>>),
          Note("x", <<Str(<<NoteChar>>)>>)}

\* USJ puts chapter markers at the top level and everything else in
\* paragraphs: wrap every maximal run of non-chapter items in a para
RECURSIVE Paragraphs(_, _)
Paragraphs(flat, run) ==
    IF flat = <<>>
    THEN (IF run = <<>> THEN <<>> ELSE <<Para(run)>>)
    ELSE IF Head(flat).marker = "c"
    THEN (IF run = <<>> THEN <<>> ELSE <<Para(run)>>)
         \o <<Head(flat)>> \o Paragraphs(Tail(flat), <<>>)
    ELSE Paragraphs(Tail(flat), Append(run, Head(flat)))

ExtractDocs ==
    LET flat == SeqsUpTo(FlatItems, MaxDocLen)
    IN flat \cup {Paragraphs(d, <<>>) : d \in flat}

NoResult == <<>>
NoScan == /\ targetVerses = <<>>
          /\ vIdx = 0
          /\ cIdx = 0
          /\ stack = <<>>
          /\ toggles = <<>>
          /\ openVerse = <<>>
          /\ issues = <<>>
          /\ frames = <<>>
          /\ visited = <<>>

InitExtract ==
    /\ pc = "start"
    /\ source = <<>>
    /\ target \in ExtractDocs
    /\ pairs = <<>>
    /\ result = NoResult
    /\ NoScan

\* a caller applies extractVerses to the target document
ExtractVerses ==
    /\ pc = "start"
    /\ result' = extractVerses(target)
    /\ pc' = "extracted"
    /\ UNCHANGED <<source, target, pairs, scanVars, walkVars>>

\* a caller applies extractChapterVerses to the target document
ExtractChapterVerses ==
    /\ pc = "start"
    /\ result' = extractChapterVerses(target)
    /\ pc' = "indexed"
    /\ UNCHANGED <<source, target, pairs, scanVars, walkVars>>

NextExtract == ExtractVerses \/ ExtractChapterVerses

SpecExtract == InitExtract /\ [][NextExtract]_vars

----------------------------------------------------------------------------
(* checkChapterVerseIntegrity applied to a source and a target document *)

WithParagraphs(flat) == flat \cup {Paragraphs(d, <<>>) : d \in flat}

IntegrityItems ==
    {Chapter(n) : n \in {"1", "2"}} \cup {Verse(n) : n \in {"1", "2", "3", "x"}}
    \cup {Str(<<"a">>)}

\* the source only matters through its index extraction, which may raise
IntegritySources ==
    {<<>>, <<Chapter("1"), Verse("1")>>, <<Verse("1")>>}

InitIntegrity ==
    /\ pc = "start"
    /\ source \in IntegritySources
    /\ target \in WithParagraphs(SeqsUpTo(IntegrityItems, MaxIntLen))
    /\ pairs = <<>>
    /\ result = NoResult
    /\ NoScan

CheckChapterVerseIntegrity ==
    /\ pc = "start"
    /\ result' = checkChapterVerseIntegrity(source, target)
    /\ pc' = "checked"
    /\ UNCHANGED <<source, target, pairs, scanVars, walkVars>>

NextIntegrity == CheckChapterVerseIntegrity

SpecIntegrity == InitIntegrity /\ [][NextIntegrity]_vars

----------------------------------------------------------------------------
(* detectMissingVerses applied to a source and a target document *)

MissingSourceItems ==
    {Chapter(n) : n \in {"1", "2"}} \cup {Verse(n) : n \in {"1", "2"}}
    \cup {Str(<<"a">>)}

MissingTargetItems ==
    {Chapter(n) : n \in {"1", "2"}} \cup {Verse(n) : n \in {"1", "2"}}

InitMissing ==
    /\ pc = "start"
    /\ \E wrapped \in BOOLEAN :
         /\ \E d \in SeqsUpTo(MissingSourceItems, MaxSrcLen) :
              source = IF wrapped THEN Paragraphs(d, <<>>) ELSE d
         /\ \E d \in SeqsUpTo(MissingTargetItems, MaxTgtLen) :
              target = IF wrapped THEN Paragraphs(d, <<>>) ELSE d
    /\ pairs = <<>>
    /\ result = NoResult
    /\ NoScan

DetectMissingVerses ==
    /\ pc = "start"
    /\ result' = detectMissingVerses(source, target)
    /\ pc' = "checked"
    /\ UNCHANGED <<source, target, pairs, scanVars, walkVars>>

NextMissing == DetectMissingVerses

SpecMissing == InitMissing /\ [][NextMissing]_vars

----------------------------------------------------------------------------
(* utils.js detectUnmatchedPunctuation: the scan, one character per step   *)

\* the default PAIR_PUNCTUATION; "<<" and ">>" stand for the two guillemets
DefaultPairs ==
    << [key |-> "(", val |-> ")"], [key |-> "[", val |-> "]"],
       [key |-> "{", val |-> "}"], [key |-> "<<", val |-> ">>"] >>

\* the parameter pair_punctuation_list: null, or a mapping
NullPairs == [given |-> FALSE, map |-> <<>>]
CustomPairs(m) == [given |-> TRUE, map |-> m]

\* mutant: the parameter is ignored
PAIR_PUNCTUATION_Default == DefaultPairs

\* if (pair_punctuation_list !== null) PAIR_PUNCTUATION = pair_punctuation_list
PAIR_PUNCTUATION == IF pairs.given THEN pairs.map ELSE DefaultPairs

\* PAIR_PUNCTUATION[char] is truthy
IsOpening(ch) == MapHas(PAIR_PUNCTUATION, ch)

CloserOf(ch) == MapGet(PAIR_PUNCTUATION, ch)

\* mutant: no character is handled with a toggle
IsSymmetric_Never(ch) == FALSE

\* PAIR_PUNCTUATION[char] === char
IsSymmetric(ch) == IsOpening(ch) /\ CloserOf(ch) = ch

\* Object.values(PAIR_PUNCTUATION).includes(char)
IsClosing(ch) ==
    \E i \in 1..Len(PAIR_PUNCTUATION) : PAIR_PUNCTUATION[i].val = ch

\* openVerse = null
NoVerse == <<>>

\* the position of the two nested for-loops: verses without characters are
\* passed over
FirstVerseFrom(vs, v) ==
    LET cand == {i \in v..Len(vs) : vs[i].val # <<>>}
    IN IF cand = {} THEN Len(vs) + 1
       ELSE CHOOSE i \in cand : \A j \in cand : i <= j

AtEnd == vIdx > Len(targetVerses)
key == targetVerses[vIdx].key
char == targetVerses[vIdx].val[cIdx]

Advance ==
    IF cIdx < Len(targetVerses[vIdx].val)
    THEN /\ vIdx' = vIdx
         /\ cIdx' = cIdx + 1
    ELSE /\ vIdx' = FirstVerseFrom(targetVerses, vIdx + 1)
         /\ cIdx' = 1

\* stack.pop(): the stack after the pop
Pop(stk) == IF stk = <<>> THEN <<>> ELSE SubSeq(stk, 1, Len(stk) - 1)

ClosingIssue(k, ch) ==
    [verse |-> k, unmatched_punctuation |-> ch,
     comment |-> "Unmatched closing punctuation"]

OpeningIssue(k, ch) ==
    [verse |-> k, unmatched_punctuation |-> ch,
     comment |-> "Unmatched opening punctuation"]

\* mutant: the popped opener itself is compared with the closing character
ClosingMismatch_Opener(stk, ch) ==
    stk = <<>> \/ stk[Len(stk)].char # ch

\* mutant: a pair that closes in a later verse than it opened is reported
ClosingMismatch_Spanning(stk, ch) ==
    \/ stk = <<>>
    \/ CloserOf(stk[Len(stk)].char) # ch
    \/ stk[Len(stk)].verse # key

\* mutant: only a pop of the empty stack is reported
ClosingMismatch_EmptyOnly(stk, ch) == stk = <<>>

\* !last || PAIR_PUNCTUATION[last.char] !== char
ClosingMismatch(stk, ch) ==
    stk = <<>> \/ CloserOf(stk[Len(stk)].char) # ch

\* !last || last.char !== char
SymmetricMismatch(stk, ch) ==
    stk = <<>> \/ stk[Len(stk)].char # ch

\* mutant: every entry of the stack is reported
RECURSIVE Leftovers_All(_, _, _)
Leftovers_All(stk, unmatchedSet, verse) ==
    IF stk = <<>> THEN <<>>
    ELSE <<OpeningIssue(verse, stk[Len(stk)].char)>>
         \o Leftovers_All(Pop(stk), unmatchedSet, verse)

\* mutant: what is left on the stack is not reported
Leftovers_None(stk, unmatchedSet, verse) == <<>>

\* the issues of the final while-loop: the stack is popped from the top and
\* each character is reported the first time it is popped
RECURSIVE Leftovers(_, _, _)
Leftovers(stk, unmatchedSet, verse) ==
    IF stk = <<>> THEN <<>>
    ELSE LET unmatched == stk[Len(stk)]
         IN (IF unmatched.char \in unmatchedSet THEN <<>>
             ELSE <<OpeningIssue(verse, unmatched.char)>>)
            \o Leftovers(Pop(stk), unmatchedSet \cup {unmatched.char}, verse)

\* extraction of the target verses and initialisation of the scan state
StartScan ==
    /\ pc = "start"
    /\ targetVerses' = extractVerses(target)
    /\ stack' = <<>>
    /\ toggles' = [ch \in {PAIR_PUNCTUATION[i].key : i \in
                             {j \in 1..Len(PAIR_PUNCTUATION) :
                                PAIR_PUNCTUATION[j].val = PAIR_PUNCTUATION[j].key}}
                   |-> FALSE]
    /\ openVerse' = NoVerse
    /\ issues' = <<>>
    /\ vIdx' = FirstVerseFrom(extractVerses(target), 1)
    /\ cIdx' = 1
    /\ pc' = "scan"
    /\ UNCHANGED <<source, target, pairs, result, walkVars>>

Scanning == pc = "scan" /\ ~AtEnd

\* a symmetric character whose toggle was false
ScanSymmetricEnter ==
    /\ Scanning
    /\ IsSymmetric(char)
    /\ ~toggles[char]
    /\ toggles' = [toggles EXCEPT ![char] = TRUE]
    /\ openVerse' = IF stack = <<>> THEN key ELSE openVerse
    /\ stack' = Append(stack, [char |-> char, verse |-> key])
    /\ Advance
    /\ UNCHANGED <<pc, source, target, pairs, result, walkVars,
                   targetVerses, issues>>

\* a symmetric character whose toggle was true
ScanSymmetricExit ==
    /\ Scanning
    /\ IsSymmetric(char)
    /\ toggles[char]
    /\ toggles' = [toggles EXCEPT ![char] = FALSE]
    /\ stack' = Pop(stack)
    /\ issues' = IF SymmetricMismatch(stack, char)
                 THEN Append(issues, ClosingIssue(key, char))
                 ELSE issues
    /\ Advance
    /\ UNCHANGED <<pc, source, target, pairs, result, walkVars,
                   targetVerses, openVerse>>

\* mutant: every push of an opening character records its verse
ScanOpening_EveryPush ==
    /\ Scanning
    /\ IsOpening(char)
    /\ ~IsSymmetric(char)
    /\ openVerse' = key
    /\ stack' = Append(stack, [char |-> char, verse |-> key])
    /\ Advance
    /\ UNCHANGED <<pc, source, target, pairs, result, walkVars,
                   targetVerses, toggles, issues>>

\* an opening character of an asymmetric pair
ScanOpening ==
    /\ Scanning
    /\ IsOpening(char)
    /\ ~IsSymmetric(char)
    /\ openVerse' = IF stack = <<>> THEN key ELSE openVerse
    /\ stack' = Append(stack, [char |-> char, verse |-> key])
    /\ Advance
    /\ UNCHANGED <<pc, source, target, pairs, result, walkVars,
                   targetVerses, toggles, issues>>

\* a closing character
ScanClosing ==
    /\ Scanning
    /\ ~IsOpening(char)
    /\ IsClosing(char)
    /\ stack' = Pop(stack)
    /\ issues' = IF ClosingMismatch(stack, char)
                 THEN Append(issues, ClosingIssue(key, char))
                 ELSE issues
    /\ Advance
    /\ UNCHANGED <<pc, source, target, pairs, result, walkVars,
                   targetVerses, toggles, openVerse>>

\* any other character
ScanOther ==
    /\ Scanning
    /\ ~IsOpening(char)
    /\ ~IsClosing(char)
    /\ Advance
    /\ UNCHANGED <<pc, source, target, pairs, result, walkVars,
                   targetVerses, stack, toggles, openVerse, issues>>

\* after the last character: the remaining stack is reported and the
\* report is returned
FinishScan ==
    /\ pc = "scan"
    /\ AtEnd
    /\ issues' = issues \o Leftovers(stack, {}, openVerse)
    /\ stack' = <<>>
    /\ result' = [threw |-> FALSE, check |-> "unmatched_punctuation",
                  issues |-> issues']
    /\ pc' = "checked"
    /\ UNCHANGED <<source, target, pairs, walkVars, targetVerses, vIdx,
                   cIdx, toggles, openVerse>>

\* characters of the target texts of the model
PunctChars == {"(", ")", "[", "]", "'"}

PunctItems ==
    {Str(<<ch>>) : ch \in PunctChars} \cup {Verse("2"), Chapter("2")}

\* the texts named in the documentation of the checker, and two texts with
\* unbalanced braces and guillemets
ExampleDocs ==
    { <<Chapter("1"), Verse("1"), Str(<<"(", "a", "b", "c", "]">>)>>,
      <<Chapter("1"), Verse("1"), Str(<<"(", "s", "t", "a", "r", "t">>),
        Verse("2"), Str(<<"e", "n", "d", ")">>)>>,
      <<Chapter("1"), Verse("1"),
        Str(<<"(", "[", "{", "<<", "a", ">>", "}", "]", ")">>)>>,
      <<Chapter("1"), Verse("1"),
        Str(<<"(", ")", " ", "[", "]", "{", "}", "<<", ">>">>)>>,
      <<Chapter("1"), Verse("1"), Str(<<"{", "a">>), Verse("2"),
        Str(<<"<<">>)>>,
      <<Chapter("1"), Verse("1"), Str(<<"}", " ", ">>">>)>> }

PunctDocs ==
    {<<Chapter("1"), Verse("1")>> \o d : d \in SeqsUpTo(PunctItems, MaxPunctLen)}
    \cup ExampleDocs

PunctConfigs ==
    { NullPairs,
      CustomPairs(<< [key |-> "(", val |-> ")"], [key |-> "[", val |-> "]"] >>),
      CustomPairs(<< [key |-> "'", val |-> "'"], [key |-> "[", val |-> "]"] >>) }

InitPunctuation ==
    /\ pc = "start"
    /\ source = <<>>
    /\ target \in PunctDocs
    /\ pairs \in PunctConfigs
    /\ result = NoResult
    /\ NoScan

NextPunctuation ==
    \/ StartScan
    \/ ScanSymmetricEnter
    \/ ScanSymmetricExit
    \/ ScanOpening
    \/ ScanClosing
    \/ ScanOther
    \/ FinishScan

SpecPunctuation == InitPunctuation /\ [][NextPunctuation]_vars

----------------------------------------------------------------------------
(* What a document announces, read off the markers in document order *)

IsMarker(item, m) == item.marker = m /\ Truthy(item.number)

\* number of the closest c marker before position i, "" when there is none
ChapterAt(po, i) ==
    LET cs == {j \in 1..(i - 1) : IsMarker(po[j], "c")}
    IN IF cs = {} THEN ""
       ELSE po[CHOOSE j \in cs : \A k \in cs : k <= j].number

\* the chapter numbers of the c markers of the document
DocChapters(doc) ==
    LET po == traverse(doc)
    IN {po[j].number : j \in {k \in 1..Len(po) : IsMarker(po[k], "c")}}

\* the verse numbers (as integers) of the v markers of chapter c, in
\* document order
DocVerses(doc, c) ==
    LET po == traverse(doc)
        Keep(i) == IsMarker(po[i], "v") /\ ChapterAt(po, i) = c
        idx == SelectSeq([i \in 1..Len(po) |-> i], Keep)
    IN [k \in 1..Len(idx) |-> parseInt(po[idx[k]].number)]

\* the (chapter, verse) pairs announced by the document: a v marker
\* together with the number of the closest c marker before it
AnnouncedVerses(doc) ==
    LET po == traverse(doc)
    IN {VerseKey(ChapterAt(po, i), po[i].number) :
          i \in {k \in 1..Len(po) :
                   IsMarker(po[k], "v") /\ ChapterAt(po, k) # ""}}

----------------------------------------------------------------------------
(* Claims about extractVerses *)

\* C1: no verse text returned by extractVerses contains text that lies
\* inside an f (footnote) or x (cross-reference) node.
C1_NoNoteText ==
    pc = "extracted" =>
        \A i \in 1..Len(result) : NoteChar \notin Range(result[i].val)

\* C2: every verse whose v marker follows a c marker has its key in the
\* verse-text map, the last verse before a following c marker included.
C2_EveryVerseKept ==
    pc = "extracted" => AnnouncedVerses(target) \subseteq MapKeys(result)

\* some v marker of the document has no c marker before it
VerseBeforeChapter(doc) ==
    LET po == traverse(doc)
    IN \E i \in 1..Len(po) : IsMarker(po[i], "v") /\ ChapterAt(po, i) = ""

\* C14: on a document in which a v marker comes before any c marker,
\* extractVerses returns a map that has no key for that verse, and
\* extractChapterVerses returns, without raising, an index that has no
\* entry for it: each chapter lists the verses announced after its c marker.
C14_VerseBeforeChapter ==
    VerseBeforeChapter(target) =>
        /\ pc = "extracted" => MapKeys(result) \subseteq AnnouncedVerses(target)
        /\ pc = "indexed" =>
              /\ ~result.threw
              /\ \A i \in 1..Len(result.chapters) :
                    result.chapters[i].val =
                        DocVerses(target, result.chapters[i].key)

\* the number of c markers of the document that carry the number c
ChapterMarkers(doc, c) ==
    LET po == traverse(doc)
    IN Cardinality({i \in 1..Len(po) : IsMarker(po[i], "c") /\ po[i].number = c})

\* C38: when the same chapter number appears in more than one c marker,
\* extractChapterVerses keeps a single sequence for the chapter, holding the
\* verse numbers that follow each of those markers in document order; a
\* repeated c marker discards nothing.
C38_RepeatedChapterKept ==
    (pc = "indexed" /\ ~result.threw)
    => \A c \in DocChapters(target) :
          ChapterMarkers(target, c) > 1
          => /\ Cardinality({i \in 1..Len(result.chapters) :
                                result.chapters[i].key = c}) = 1
             /\ MapGet(result.chapters, c) = DocVerses(target, c)

\* a chapter with two c markers, each followed by a verse, was indexed
C38_Witness ==
    /\ pc = "indexed"
    /\ ~result.threw
    /\ \E c \in DocChapters(target) :
          /\ ChapterMarkers(target, c) = 2
          /\ Len(MapGet(result.chapters, c)) = 2
          /\ LET po == traverse(target)
             IN \E i, j \in 1..Len(po) :
                   /\ i + 1 < j
                   /\ IsMarker(po[i], "c") /\ po[i].number = c
                   /\ IsMarker(po[i + 1], "v")
                   /\ IsMarker(po[j], "c") /\ po[j].number = c
                   /\ j < Len(po) /\ IsMarker(po[j + 1], "v")

----------------------------------------------------------------------------
(* Claims about checkChapterVerseIntegrity *)

Returned == pc = "checked" /\ ~result.threw

IssueIdx == 1..Len(result.issues)

IsVerseIssue(is, ty, c, v) ==
    /\ is.type = ty
    /\ "verse" \in DOMAIN is
    /\ is.chapter = parseInt(c)
    /\ is.verse = v

AllIntegers(s) == NaN \notin Range(s)

\* some verse number is strictly less than an earlier one of the sequence
\* (equivalently, than the maximum of the earlier ones)
HasDescent(s) ==
    \E i \in 1..Len(s) : \E j \in 1..(i - 1) : s[i] < s[j]

\* C6: for every target chapter whose verse numbers are integers, a
\* verse-level out_of_order issue is reported in that chapter if and only if
\* some verse number is strictly less than the maximum seen earlier in it.
C6_OutOfOrderIff ==
    Returned =>
        \A c \in DocChapters(target) :
            LET s == DocVerses(target, c)
            IN AllIntegers(s) =>
                 ((\E k \in IssueIdx :
                      /\ result.issues[k].type = "out_of_order"
                      /\ "verse" \in DOMAIN result.issues[k]
                      /\ result.issues[k].chapter = parseInt(c))
                  <=> HasDescent(s))

\* a chapter 3, 1, 2 was checked: 2 is below the maximum but not below its
\* predecessor, and the chapter is reported out of order
C6_Witness ==
    /\ Returned
    /\ \E c \in DocChapters(target) : DocVerses(target, c) = <<3, 1, 2>>
    /\ \E k \in IssueIdx : result.issues[k].type = "out_of_order"

\* C7: every occurrence after the first of a verse number in a target
\* chapter yields one duplicate issue, and an occurrence that is also lower
\* than the preceding verse yields an out_of_order issue followed by a
\* duplicate issue.
C7_DuplicateAlways ==
    Returned =>
        \A c \in DocChapters(target) :
            LET s == DocVerses(target, c)
            IN /\ \A v \in Range(s) \ {NaN} :
                    Cardinality({k \in IssueIdx :
                        IsVerseIssue(result.issues[k], "duplicate", c, v)})
                    = Cardinality({i \in 1..Len(s) : s[i] = v}) - 1
               /\ \A i \in 2..Len(s) :
                    (/\ s[i] # NaN
                     /\ NumLess(s[i], s[i - 1])
                     /\ \E j \in 1..(i - 1) : s[j] = s[i])
                    => \E k \in IssueIdx :
                         /\ k + 1 \in IssueIdx
                         /\ IsVerseIssue(result.issues[k], "out_of_order", c, s[i])
                         /\ IsVerseIssue(result.issues[k + 1], "duplicate", c, s[i])

\* a chapter 1, 2, 1 was checked: the second 1 is a duplicate that is also
\* out of order
C7_Witness ==
    /\ Returned
    /\ \E c \in DocChapters(target) : DocVerses(target, c) = <<1, 2, 1>>
    /\ \E k \in IssueIdx : result.issues[k].type = "duplicate"

\* the chapter numbers of a document in the order in which they first
\* appear on a c marker
ChapterWalk(doc) ==
    LET po == traverse(doc)
        First(i) == /\ IsMarker(po[i], "c")
                    /\ \A j \in 1..(i - 1) :
                          ~(IsMarker(po[j], "c") /\ po[j].number = po[i].number)
        idx == SelectSeq([i \in 1..Len(po) |-> i], First)
    IN [k \in 1..Len(idx) |-> po[idx[k]].number]

IsChapterIssue(is, c) ==
    /\ is.type = "out_of_order"
    /\ "verse" \notin DOMAIN is
    /\ is.chapter = parseInt(c)

\* C25: the chapters of the target are walked in the order in which they
\* first appear in the document, and every chapter whose number is less
\* than that of the chapter walked just before it gets a chapter-level
\* out_of_order issue: when the marker of chapter 2 precedes that of
\* chapter 1, chapter 1 is reported.
C25_ChapterOrder ==
    Returned =>
        LET w == ChapterWalk(target)
        IN \A i \in 2..Len(w) :
              NumLess(parseInt(w[i]), parseInt(w[i - 1]))
              => \E k \in IssueIdx : IsChapterIssue(result.issues[k], w[i])

\* the verse-level issues that a sequence of integers calls for, as pairs
\* of type and verse: a number below its predecessor is out of order, and
\* a number that occurred before is a duplicate
ExpectedVerseIssues(p) ==
    Flatten([i \in 1..Len(p) |->
        (IF i > 1 /\ p[i] < p[i - 1]
         THEN <<<<"out_of_order", p[i]>>>> ELSE <<>>)
        \o (IF \E j \in 1..(i - 1) : p[j] = p[i]
            THEN <<<<"duplicate", p[i]>>>> ELSE <<>>)])

\* the verse-level issues of the report about chapter c, as pairs of type
\* and verse, in report order
VerseIssuesOf(c) ==
    LET idx == SelectSeq([k \in IssueIdx |-> k],
                         LAMBDA k : /\ "verse" \in DOMAIN result.issues[k]
                                    /\ result.issues[k].chapter = parseInt(c))
    IN [n \in 1..Len(idx) |->
          <<result.issues[idx[n]].type, result.issues[idx[n]].verse>>]

\* C26: a verse number that is not an integer takes no part in the order
\* and duplicate comparisons: no issue is about it, and the verse-level
\* issues of every chapter are those of its sequence of verse numbers with
\* the unparseable ones left out (in 3, x, 2 the 2 is out of order; x, x
\* has no duplicate).
C26_UnparseableExcluded ==
    Returned =>
        /\ \A k \in IssueIdx :
              "verse" \in DOMAIN result.issues[k]
              => result.issues[k].verse # NaN
        /\ \A c \in DocChapters(target) :
              VerseIssuesOf(c) =
                 ExpectedVerseIssues(SelectSeq(DocVerses(target, c),
                                               LAMBDA v : v # NaN))

\* without unparseable numbers the issues are the expected ones
C26_ParseableOnly ==
    (Returned /\ \A c \in DocChapters(target) : AllIntegers(DocVerses(target, c)))
    => \A c \in DocChapters(target) :
          VerseIssuesOf(c) = ExpectedVerseIssues(DocVerses(target, c))

----------------------------------------------------------------------------
(* Claims about detectMissingVerses *)

\* C8: every source verse number that does not occur among the target's
\* verse numbers of the same chapter is reported, an absent target chapter
\* counting as empty.
C8_MissingReported ==
    Returned =>
        \A c \in DocChapters(source) :
            \A v \in Range(DocVerses(source, c)) \ Range(DocVerses(target, c)) :
                \E k \in IssueIdx :
                    /\ result.issues[k].chapter = parseInt(c)
                    /\ result.issues[k].verse = v

\* the target lacks a whole source chapter that has two different verses,
\* and both are reported
C8_Witness ==
    /\ Returned
    /\ \E c \in DocChapters(source) \ DocChapters(target) :
          Cardinality(Range(DocVerses(source, c))) = 2
    /\ Len(result.issues) = 2

\* C9: every reported (chapter, verse) occurs in the source; a verse or a
\* chapter that occurs only in the target is never reported.
C9_Asymmetric ==
    Returned =>
        \A k \in IssueIdx :
            \E c \in DocChapters(source) :
                /\ parseInt(c) = result.issues[k].chapter
                /\ result.issues[k].verse \in Range(DocVerses(source, c))

\* the target has a verse the source lacks in a chapter they share, the
\* source has one the target lacks, and only the latter is reported
C9_Witness ==
    /\ Returned
    /\ \E c \in DocChapters(source) \cap DocChapters(target) :
          /\ Range(DocVerses(target, c)) \ Range(DocVerses(source, c)) # {}
          /\ Range(DocVerses(source, c)) \ Range(DocVerses(target, c)) # {}
    /\ Len(result.issues) = 1

\* C10: every issue of the missing-verse check carries type = "missing".
C10_TypeMissing ==
    Returned =>
        \A k \in IssueIdx :
            /\ "type" \in DOMAIN result.issues[k]
            /\ result.issues[k].type = "missing"

\* C30: every issue of the missing-verse check carries in verse_text a
\* defined string, the value of the source's verse-text map for the chapter
\* and verse of the issue; this holds for the last verse of a chapter too.
C30_VerseTextDefined ==
    Returned =>
        \A k \in IssueIdx :
            LET sv == extractVerses(source)
                k_ == VerseKey(NumToString(result.issues[k].chapter),
                               NumToString(result.issues[k].verse))
            IN /\ result.issues[k].verse_text # Undefined
               /\ MapHas(sv, k_)
               /\ result.issues[k].verse_text = MapGet(sv, k_)

\* the same, for the reported verses that are not the last verse before a
\* following c marker
C30_ExceptLastOfChapter ==
    Returned =>
        \A k \in IssueIdx :
            LET c == NumToString(result.issues[k].chapter)
                v == NumToString(result.issues[k].verse)
                po == traverse(source)
                Announcing == {i \in 1..Len(po) :
                                  /\ IsMarker(po[i], "v")
                                  /\ po[i].number = v
                                  /\ ChapterAt(po, i) = c}
                Followed(i) ==
                    \E j \in (i + 1)..Len(po) :
                        /\ IsMarker(po[j], "c")
                        /\ \A m \in (i + 1)..(j - 1) : ~IsMarker(po[m], "v")
            IN (\E i \in Announcing : ~Followed(i))
               => result.issues[k].verse_text # Undefined

----------------------------------------------------------------------------
(* Claims about detectUnmatchedPunctuation *)

\* every configured pair has a closing character of its own
AsymmetricOnly ==
    \A i \in 1..Len(PAIR_PUNCTUATION) :
        PAIR_PUNCTUATION[i].key # PAIR_PUNCTUATION[i].val

\* s is correctly nested over the configured pairs: it is empty, or starts
\* with another character and the rest is nested, or starts with an opener
\* whose closer splits the rest in two nested texts
RECURSIVE Nested(_)
Nested(s) ==
    IF s = <<>> THEN TRUE
    ELSE IF IsOpening(Head(s))
    THEN \E j \in 2..Len(s) :
            /\ s[j] = CloserOf(Head(s))
            /\ Nested(SubSeq(s, 2, j - 1))
            /\ Nested(SubSeq(s, j + 1, Len(s)))
    ELSE ~IsClosing(Head(s)) /\ Nested(Tail(s))

\* the texts of the scanned verses, in scan order
ScannedTexts == [i \in 1..Len(targetVerses) |-> targetVerses[i].val]

\* C3: a single verse text in which an opener ( is met by the closer ] of
\* another pair type, under the default pairs, yields an unmatched-closing
\* issue for ] and an unmatched-opening issue for (.
C3_MismatchReportsBoth ==
    (/\ Returned
     /\ ~pairs.given
     /\ Len(targetVerses) = 1
     /\ LET t == targetVerses[1].val
        IN /\ Len(t) >= 2
           /\ t[1] = "("
           /\ t[Len(t)] = "]"
           /\ \A i \in 2..(Len(t) - 1) : ~IsOpening(t[i]) /\ ~IsClosing(t[i]))
    => /\ \E k \in IssueIdx :
            result.issues[k] = ClosingIssue(targetVerses[1].key, "]")
       /\ \E k \in IssueIdx :
            result.issues[k] = OpeningIssue(targetVerses[1].key, "(")

\* C4: when every verse text is correctly nested over the configured
\* bracket pairs, no issue is returned.
C4_NestedNoIssue ==
    (/\ Returned
     /\ AsymmetricOnly
     /\ \A i \in 1..Len(targetVerses) : Nested(targetVerses[i].val))
    => result.issues = <<>>

\* one verse holding exactly one pair of each of the four default bracket
\* types, nested in one another, was scanned without an issue
C4_Witness ==
    /\ Returned
    /\ ~pairs.given
    /\ Len(targetVerses) = 1
    /\ \A i \in 1..Len(DefaultPairs) :
          /\ Cardinality({j \in 1..Len(targetVerses[1].val) :
                targetVerses[1].val[j] = DefaultPairs[i].key}) = 1
          /\ Cardinality({j \in 1..Len(targetVerses[1].val) :
                targetVerses[1].val[j] = DefaultPairs[i].val}) = 1
    /\ targetVerses[1].val[1] = "("
    /\ targetVerses[1].val[2] = "["
    /\ result.issues = <<>>

\* C5: matching spans verse boundaries: when the verse texts, concatenated
\* in scan order, are correctly nested, no issue is returned, wherever the
\* verse boundaries fall.
C5_SpansVerses ==
    (/\ Returned
     /\ AsymmetricOnly
     /\ Nested(Flatten(ScannedTexts)))
    => result.issues = <<>>

\* an opener of one verse was closed in a later verse, neither verse being
\* nested by itself, and no issue was returned
C5_Witness ==
    /\ Returned
    /\ AsymmetricOnly
    /\ Len(targetVerses) = 2
    /\ ~Nested(targetVerses[1].val)
    /\ ~Nested(targetVerses[2].val)
    /\ Nested(Flatten(ScannedTexts))
    /\ result.issues = <<>>

\* the characters that are a key or a value of the mapping in force, read
\* off the parameter: the eight default characters when it is null
Configured ==
    IF pairs.given
    THEN {pairs.map[i].key : i \in 1..Len(pairs.map)}
         \cup {pairs.map[i].val : i \in 1..Len(pairs.map)}
    ELSE {"(", ")", "[", "]", "{", "}", "<<", ">>"}

\* the characters cited by the issues of the report
Cited == {result.issues[k].unmatched_punctuation : k \in IssueIdx}

\* the occurrences of the characters of S in the scanned text
Occurrences(S) ==
    LET t == Flatten(ScannedTexts) IN {i \in 1..Len(t) : t[i] \in S}

\* C23: a custom mapping replaces the default pairs: every issue cites a
\* character that is a key or a value of the mapping in force and occurs in
\* the text, so that a text whose only punctuation is outside the mapping
\* yields no issue; with no mapping the characters in force are the default
\* ( ) [ ] { } and the guillemets.  The characters in force are checked: a
\* text with an odd number of them cannot be balanced and yields an issue.
C23_CustomReplacesDefaults ==
    Returned =>
        /\ Cited \subseteq Configured
        /\ \A ch \in Cited : Occurrences({ch}) # {}
        /\ Occurrences(Configured) = {} => result.issues = <<>>
        /\ Cardinality(Occurrences(Configured)) % 2 = 1 => result.issues # <<>>

\* under a custom mapping without the parentheses, a text with an unclosed
\* ( and an unopened ] was scanned: the only issue cites ]
C23_Witness ==
    /\ Returned
    /\ pairs.given
    /\ "(" \notin Configured
    /\ Cardinality(Occurrences({"("})) = 1
    /\ Occurrences({")"}) = {}
    /\ Len(result.issues) = 1
    /\ Cited = {"]"}

\* with no mapping, a text with an unclosed brace and an unclosed guillemet
\* was scanned: both are cited
C23_WitnessDefaults ==
    /\ Returned
    /\ ~pairs.given
    /\ Cited = {"{", "<<"}

\* the mapping in force, read off the parameter
InForce == IF pairs.given THEN pairs.map ELSE DefaultPairs

\* ch is the closer of a pair and the opener of none
DedicatedCloser(ch) ==
    /\ \E i \in 1..Len(InForce) : InForce[i].val = ch
    /\ \A i \in 1..Len(InForce) : InForce[i].key # ch

\* the closer that the mapping in force gives to the opener o
ExpectedCloser(o) ==
    InForce[CHOOSE i \in 1..Len(InForce) : InForce[i].key = o].val

\* C27: a step of the scan on a dedicated closing character removes the top
\* of the stack (an empty stack stays empty) and appends one issue iff the
\* stack was empty or the closer expected by the removed opener is another
\* character; the issue is an unmatched-closing issue of the verse being
\* scanned that cites the character.  Otherwise the issues are unchanged.
C27_ClosingStep ==
    [][(pc = "scan" /\ ~AtEnd /\ DedicatedCloser(char)) =>
         /\ stack' = SubSeq(stack, 1, Len(stack) - 1)
         /\ issues' =
              IF stack = <<>> \/ ExpectedCloser(stack[Len(stack)].char) # char
              THEN Append(issues,
                          [verse |-> key, unmatched_punctuation |-> char,
                           comment |-> "Unmatched closing punctuation"])
              ELSE issues]_vars

\* two ( of the first verse were followed by a ] in the second verse: one
\* ( was popped and the only issue is the unmatched closing ] of the second
\* verse
C27_Witness ==
    /\ pc = "scan"
    /\ AtEnd
    /\ Len(targetVerses) = 2
    /\ Len(stack) = 1
    /\ stack[1].char = "("
    /\ issues = <<[verse |-> targetVerses[2].key, unmatched_punctuation |-> "]",
                   comment |-> "Unmatched closing punctuation"]>>

\* C28: openVerse is the verse at which the stack last went from empty to
\* non-empty, and the step that ends the scan appends, after the issues
\* collected so far (all of them unmatched-closing issues), exactly one
\* unmatched-opening issue per distinct character left on the stack, each
\* attributed to openVerse.
C28_LeftoverOpenings ==
    [][/\ (pc = "scan" /\ pc' = "scan") =>
            openVerse' = IF stack = <<>> /\ stack' # <<>> THEN key
                         ELSE openVerse
       /\ (pc = "scan" /\ pc' = "checked") =>
            LET new == SubSeq(issues', Len(issues) + 1, Len(issues'))
                left == {stack[i].char : i \in 1..Len(stack)}
            IN /\ SubSeq(issues', 1, Len(issues)) = issues
               /\ Len(new) = Cardinality(left)
               /\ {new[i].unmatched_punctuation : i \in 1..Len(new)} = left
               /\ \A i \in 1..Len(new) :
                     /\ new[i].verse = openVerse
                     /\ new[i].comment = "Unmatched opening punctuation"
               /\ \A i \in 1..Len(issues) :
                     issues[i].comment = "Unmatched closing punctuation"
               /\ result'.issues = issues']_vars

\* a ) of the first verse found the stack empty, then the second verse
\* opened ( twice: the report is the closing issue of the first verse, then
\* one opening issue for (, attributed to the second verse
C28_Witness ==
    /\ Returned
    /\ ~pairs.given
    /\ Len(targetVerses) = 2
    /\ Cardinality(Occurrences({"("})) = 2
    /\ result.issues = <<ClosingIssue(targetVerses[1].key, ")"),
                         OpeningIssue(targetVerses[2].key, "(")>>

\* C29: when the only configured punctuation of the text is a character
\* that is its own closer, an even number of occurrences over all verses
\* yields no issue and an odd number yields exactly one issue, an
\* unmatched-opening issue that cites the character.
C29_SymmetricParity ==
    Returned =>
        \A i \in 1..Len(InForce) :
            LET ch == InForce[i].key
            IN (/\ InForce[i].val = ch
                /\ Occurrences(Configured \ {ch}) = {})
               => IF Cardinality(Occurrences({ch})) % 2 = 0
                  THEN result.issues = <<>>
                  ELSE /\ Len(result.issues) = 1
                       /\ result.issues[1].unmatched_punctuation = ch
                       /\ result.issues[1].comment =
                              "Unmatched opening punctuation"

\* three quotes, two in the first verse and one in the second, and no
\* other configured punctuation: one unmatched-opening issue
C29_Witness ==
    /\ Returned
    /\ "'" \in Configured
    /\ Len(targetVerses) = 2
    /\ Cardinality(Occurrences({"'"})) = 3
    /\ Occurrences(Configured \ {"'"}) = {}
    /\ result.issues = <<OpeningIssue(targetVerses[2].key, "'")>>

----------------------------------------------------------------------------
(* USJHandler.js: the lookups verse(reference) and chapter(chapterNumber)  *)

\* longest flat document of the lookup specification
MaxHandlerLen == 4

\* the value null of a variable that otherwise holds a string
Null == "null"

\* reference.split(':'), for a reference given as its number parts and its
\* separators, such as <<"1", ":", "2">>; an empty part is ""
RECURSIVE split(_)
split(reference) ==
    IF reference = <<>> THEN <<"">>
    ELSE IF Head(reference) = ":" THEN <<"">> \o split(Tail(reference))
    ELSE IF Len(reference) = 1 THEN <<Head(reference)>>
    ELSE <<Head(reference)>> \o split(Tail(Tail(reference)))

VInit == [currentChapter |-> Null, collecting |-> FALSE, content |-> <<>>]

\* mutant: the v branch does not look at the current chapter
VerseItem_AnyChapter(st, item, targetChapter, targetVerse) ==
    IF item.marker = "c" /\ Truthy(item.number)
    THEN [st EXCEPT !.currentChapter = item.number]
    ELSE IF item.marker = "v" /\ Truthy(item.number)
    THEN [st EXCEPT !.collecting = (item.number = targetVerse)]
    ELSE IF st.collecting /\ item.kind = "str"
    THEN [st EXCEPT !.content = @ \o item.text]
    ELSE st

\* the callback of verse()
VerseItem(st, item, targetChapter, targetVerse) ==
    IF item.marker = "c" /\ Truthy(item.number)
    THEN [st EXCEPT !.currentChapter = item.number]
    ELSE IF /\ item.marker = "v" /\ Truthy(item.number)
            /\ st.currentChapter = targetChapter
    THEN [st EXCEPT !.collecting = (item.number = targetVerse)]
    ELSE IF st.collecting /\ item.kind = "str"
    THEN [st EXCEPT !.content = @ \o item.text]
    ELSE st

RECURSIVE VerseFold(_, _, _, _)
VerseFold(st, visits, targetChapter, targetVerse) ==
    IF visits = <<>> THEN st
    ELSE VerseFold(VerseItem(st, Head(visits), targetChapter, targetVerse),
                   Tail(visits), targetChapter, targetVerse)

\* const [targetChapter, targetVerse] = reference.split(':'); a part that
\* the reference does not have is undefined
verse(usj, reference) ==
    LET parts == split(reference)
        targetChapter == parts[1]
        targetVerse == IF Len(parts) >= 2 THEN parts[2] ELSE ""
    IN Trim(VerseFold(VInit, traverse(usj), targetChapter, targetVerse).content)

\* the callback of chapter()
ChapterItem(st, item, chapterNumber) ==
    IF item.marker = "c" /\ Truthy(item.number)
    THEN [st EXCEPT !.currentChapter = item.number,
                    !.collecting = (item.number = chapterNumber)]
    ELSE IF st.collecting /\ item.kind = "str"
    THEN [st EXCEPT !.content = @ \o item.text]
    ELSE st

RECURSIVE ChapterFold(_, _, _)
ChapterFold(st, visits, chapterNumber) ==
    IF visits = <<>> THEN st
    ELSE ChapterFold(ChapterItem(st, Head(visits), chapterNumber),
                     Tail(visits), chapterNumber)

chapter(usj, chapterNumber) ==
    Trim(ChapterFold(VInit, traverse(usj), chapterNumber).content)

HandlerItems ==
    {Chapter(n) : n \in {"1", "2"}} \cup {Verse(n) : n \in {"1", "2"}}
    \cup {Str(<<"a">>), Str(<<" ">>), Char("w", <<Str(<<"b">>)>>)}

\* the numbers a lookup asks for: "3" occurs in no document
LookupNumbers == {"1", "2", "3"}

\* well-formed references, and references that lack a part
References ==
    {<<c, ":", v>> : c \in LookupNumbers, v \in LookupNumbers}
    \cup {<<"1">>, <<":", "1">>}

InitHandler ==
    /\ pc = "start"
    /\ source = <<>>
    /\ target \in WithParagraphs(SeqsUpTo(HandlerItems, MaxHandlerLen))
    /\ pairs = <<>>
    /\ result = NoResult
    /\ NoScan

\* handler.verse(reference)
LookupVerse ==
    /\ pc = "start"
    /\ \E reference \in References :
         result' = [arg |-> reference, threw |-> FALSE,
                    value |-> verse(target, reference)]
    /\ pc' = "verse"
    /\ UNCHANGED <<source, target, pairs, scanVars, walkVars>>

\* handler.chapter(chapterNumber)
LookupChapter ==
    /\ pc = "start"
    /\ \E chapterNumber \in LookupNumbers :
         result' = [arg |-> chapterNumber, threw |-> FALSE,
                    value |-> chapter(target, chapterNumber)]
    /\ pc' = "chapter"
    /\ UNCHANGED <<source, target, pairs, scanVars, walkVars>>

NextHandler == LookupVerse \/ LookupChapter

SpecHandler == InitHandler /\ [][NextHandler]_vars

----------------------------------------------------------------------------
(* USJHandler.js verseRange *)

\* longest flat document of the range specification
MaxRangeLen == 4

\* range.split('-'), for a range given as its number parts and separators,
\* such as <<"1", ":", "1", "-", "1", ":", "3">>: the references between the
\* hyphens
RECURSIVE splitRange(_, _)
splitRange(range, ref) ==
    IF range = <<>> THEN <<ref>>
    ELSE IF Head(range) = "-" THEN <<ref>> \o splitRange(Tail(range), <<>>)
    ELSE splitRange(Tail(range), Append(ref, Head(range)))

\* the UTF-16 code units of the number strings of the model, as digits
CodeUnits(s) ==
    CASE s = "0" -> <<0>> [] s = "1" -> <<1>> [] s = "2" -> <<2>>
      [] s = "3" -> <<3>> [] s = "10" -> <<1, 0>> [] s = "01" -> <<0, 1>>
      [] OTHER -> <<>>

\* a < b on two strings: the order of the code units
StringLess(a, b) ==
    LET x == CodeUnits(a)
        y == CodeUnits(b)
    IN \E n \in 0..Len(y) :
          /\ n <= Len(x)
          /\ \A i \in 1..n : x[i] = y[i]
          /\ IF n = Len(x) THEN n < Len(y)
             ELSE n < Len(y) /\ x[n + 1] < y[n + 1]

\* x >= y and x <= y where y is a string and x is a string or null: two
\* strings are compared as strings, null is converted to the number 0 and
\* the string to a number
ChapterGE(x, y) ==
    IF x = Null THEN ~NumLess(0, parseInt(y)) /\ parseInt(y) # NaN
    ELSE ~StringLess(x, y)
ChapterLE(x, y) ==
    IF x = Null THEN ~NumLess(parseInt(y), 0) /\ parseInt(y) # NaN
    ELSE ~StringLess(y, x)

\* n >= y and n <= y where n is a number and y a string: y is converted to
\* a number, and a comparison with NaN is false
VerseGE(n, y) == n # NaN /\ parseInt(y) # NaN /\ n >= parseInt(y)
VerseLE(n, y) == n # NaN /\ parseInt(y) # NaN /\ n <= parseInt(y)

\* the callback of verseRange()
RangeItem(st, item, startChapter, startVerse, endChapter, endVerse) ==
    LET marked ==
          IF item.marker = "c" /\ Truthy(item.number)
          THEN [st EXCEPT !.currentChapter = item.number]
          ELSE IF /\ item.marker = "v" /\ Truthy(item.number)
                  /\ ChapterGE(st.currentChapter, startChapter)
                  /\ ChapterLE(st.currentChapter, endChapter)
          THEN LET verseNumber == parseInt(item.number)
                   inRange == /\ VerseGE(verseNumber, startVerse)
                              /\ VerseLE(verseNumber, endVerse)
               IN [st EXCEPT !.collecting = inRange]
          ELSE st
    IN IF marked.collecting /\ item.kind = "str"
       THEN [marked EXCEPT !.content = @ \o item.text]
       ELSE marked

RECURSIVE RangeFold(_, _, _, _, _, _)
RangeFold(st, visits, startChapter, startVerse, endChapter, endVerse) ==
    IF visits = <<>> THEN st
    ELSE RangeFold(RangeItem(st, Head(visits), startChapter, startVerse,
                             endChapter, endVerse),
                   Tail(visits), startChapter, startVerse, endChapter, endVerse)

\* the three destructuring splits, then the traversal
verseRange(usj, range) ==
    LET refs == splitRange(range, <<>>)
        startRef == split(refs[1])
        endRef == split(refs[2])
    IN Trim(RangeFold(VInit, traverse(usj), startRef[1], startRef[2],
                      endRef[1], endRef[2]).content)

RangeItems ==
    {Chapter(n) : n \in {"1", "2", "10"}} \cup {Verse(n) : n \in {"1", "2"}}
    \cup {Str(<<"a">>), Str(<<"b">>)}

\* well-formed ranges "<c1>:<s>-<c2>:<e>" with c1 <= c2 and s <= e as
\* integers
Ranges ==
    {<<c[1], ":", v[1], "-", c[2], ":", v[2]>> :
        c \in {<<"1", "1">>, <<"1", "2">>, <<"2", "2">>, <<"2", "10">>},
        v \in {<<"1", "1">>, <<"1", "2">>}}

InitRange ==
    /\ pc = "start"
    /\ source = <<>>
    /\ target \in SeqsUpTo(RangeItems, MaxRangeLen)
    /\ pairs = <<>>
    /\ result = NoResult
    /\ NoScan

\* handler.verseRange(range)
LookupVerseRange ==
    /\ pc = "start"
    /\ \E range \in Ranges :
         result' = [arg |-> range, threw |-> FALSE,
                    value |-> verseRange(target, range)]
    /\ pc' = "range"
    /\ UNCHANGED <<source, target, pairs, scanVars, walkVars>>

NextRange == LookupVerseRange

SpecRange == InitRange /\ [][NextRange]_vars

\* C35: with only asymmetric pairs configured the check is complete: when
\* the verse texts, concatenated in scan order, are not correctly nested
\* over the configured pairs, at least one issue is returned.
C35_NotNestedReported ==
    (/\ Returned
     /\ AsymmetricOnly
     /\ ~Nested(Flatten(ScannedTexts)))
    => result.issues # <<>>

\* two verses, each correctly nested when closed by the other, were scanned
\* with an opener that no later character closes, and an issue was returned
C35_Witness ==
    /\ Returned
    /\ AsymmetricOnly
    /\ Len(targetVerses) = 2
    /\ ~Nested(Flatten(ScannedTexts))
    /\ \A i \in 1..Len(Flatten(ScannedTexts)) :
          ~IsClosing(Flatten(ScannedTexts)[i])
    /\ result.issues # <<>>

\* the stack holds an entry for the character ch
OnStack(ch) == \E i \in 1..Len(stack) : stack[i].char = ch

\* C36: at every point of the scan, the toggle of a symmetric character is
\* true exactly when an entry for that character is on the shared stack,
\* also after mismatched pops caused by other punctuation.
C36_ToggleIffOnStack ==
    pc = "scan" => \A ch \in DOMAIN toggles : toggles[ch] <=> OnStack(ch)

\* the same, at the points of the scan where no issue was recorded so far
C36_WhileNoIssue ==
    (pc = "scan" /\ issues = <<>>)
    => \A ch \in DOMAIN toggles : toggles[ch] <=> OnStack(ch)

\* C37: whenever the stack is non-empty, openVerse is the verse key of the
\* bottom stack entry, after any pushes and pops, matched or mismatched.
C37_OpenVerseIsBottom ==
    (pc = "scan" /\ stack # <<>>) => openVerse = stack[1].verse

\* after a mismatched pop in the first verse, the stack became non-empty
\* again in a later verse, and a second entry was pushed on top of it
C37_Witness ==
    /\ pc = "scan"
    /\ issues # <<>>
    /\ Len(stack) = 2
    /\ Len(targetVerses) = 2
    /\ stack[1].verse = targetVerses[2].key
    /\ openVerse = targetVerses[2].key

----------------------------------------------------------------------------
(* Claims about the lookups of USJHandler *)

RECURSIVE IsSubsequence(_, _)
IsSubsequence(s, t) ==
    IF s = <<>> THEN TRUE
    ELSE IF t = <<>> THEN FALSE
    ELSE IF Head(s) = Head(t) THEN IsSubsequence(Tail(s), Tail(t))
    ELSE IsSubsequence(s, Tail(t))

\* the text that lies between a v marker numbered v of chapter c and the
\* next v or c marker: the strings whose closest marker before them is
\* such a v marker, in document order
RegionText(doc, c, v) ==
    LET po == traverse(doc)
        Markers(i) == {j \in 1..(i - 1) :
                         IsMarker(po[j], "c") \/ IsMarker(po[j], "v")}
        Last(i) == CHOOSE j \in Markers(i) : \A k \in Markers(i) : k <= j
        Inside(i) == /\ po[i].kind = "str"
                     /\ Markers(i) # {}
                     /\ IsMarker(po[Last(i)], "v")
                     /\ po[Last(i)].number = v
                     /\ ChapterAt(po, Last(i)) = c
        idx == SelectSeq([i \in 1..Len(po) |-> i], Inside)
    IN Flatten([k \in 1..Len(idx) |-> po[idx[k]].text])

\* C11: the text returned by verse("<c>:<v>") is made only of text that lies
\* between a v marker of verse v in chapter c and the next v or c marker;
\* no text of a later verse or of a later chapter is part of it.
C11_OnlyVerseText ==
    pc = "verse" =>
        \A c \in LookupNumbers : \A v \in LookupNumbers :
            result.arg = <<c, ":", v>> =>
                IsSubsequence(result.value, RegionText(target, c, v))

\* C12: a lookup of a verse that the document does not announce (its
\* chapter or its verse number is absent), or of a chapter that has no c
\* marker, returns the empty string and does not raise.
C12_AbsentIsEmpty ==
    /\ pc = "verse" =>
         \A c \in LookupNumbers : \A v \in LookupNumbers :
            (/\ result.arg = <<c, ":", v>>
             /\ VerseKey(c, v) \notin AnnouncedVerses(target))
            => (~result.threw /\ result.value = <<>>)
    /\ pc = "chapter" =>
         (result.arg \notin DocChapters(target)
          => (~result.threw /\ result.value = <<>>))

\* verse 2 of chapter 1 was looked up in a document that has the chapter,
\* other verses and text, but not that verse
C12_Witness ==
    /\ pc = "verse"
    /\ result.arg = <<"1", ":", "2">>
    /\ "1" \in DocChapters(target)
    /\ VerseKey("1", "1") \in AnnouncedVerses(target)
    /\ VerseKey("1", "2") \notin AnnouncedVerses(target)
    /\ RegionText(target, "1", "1") # <<>>
    /\ result.value = <<>>

\* the text of a document that does not belong to a verse outside the
\* range: the strings whose closest marker before them is not a v marker
\* with a chapter outside [c1, c2] or a number outside [s, e], chapters and
\* verses taken as integers
TextNotOutside(doc, c1, s, c2, e) ==
    LET po == traverse(doc)
        Markers(i) == {j \in 1..(i - 1) :
                         IsMarker(po[j], "c") \/ IsMarker(po[j], "v")}
        Last(i) == CHOOSE j \in Markers(i) : \A k \in Markers(i) : k <= j
        Within(x, lo, hi) ==
            /\ parseInt(x) # NaN
            /\ parseInt(lo) <= parseInt(x) /\ parseInt(x) <= parseInt(hi)
        Outside(i) == /\ Markers(i) # {}
                      /\ IsMarker(po[Last(i)], "v")
                      /\ ~(/\ Within(ChapterAt(po, Last(i)), c1, c2)
                            /\ Within(po[Last(i)].number, s, e))
        idx == SelectSeq([i \in 1..Len(po) |-> i],
                         LAMBDA i : po[i].kind = "str" /\ ~Outside(i))
    IN Flatten([k \in 1..Len(idx) |-> po[idx[k]].text])

\* C24: the text returned by verseRange("<c1>:<s>-<c2>:<e>") holds no text
\* of a verse whose chapter lies outside [c1, c2] or whose number lies
\* outside [s, e], chapters and verses compared as integers.
C24_OnlyRangeText ==
    pc = "range" =>
        IsSubsequence(result.value,
                      TextNotOutside(target, result.arg[1], result.arg[3],
                                     result.arg[5], result.arg[7]))

----------------------------------------------------------------------------
(* USJHandler.js extractVerses *)

\* number of items after the leading c/v markers in the documents of the
\* handler extraction
MaxNoteLen == 4

HEVInit == [verses |-> <<>>, currentChapter |-> "", currentVerse |-> "",
            currentContent |-> <<>>, inFootnoteOrXref |-> FALSE]

\* String.prototype.endsWith
EndsWith(s, t) ==
    Len(t) <= Len(s) /\ SubSeq(s, Len(s) - Len(t) + 1, Len(s)) = t

\* if (!currentContent.endsWith(text)) currentContent += text
AppendText(st, text) ==
    IF ~EndsWith(st.currentContent, text)
    THEN [st EXCEPT !.currentContent = @ \o text]
    ELSE st

\* the callback of extractVerses(), invoked by traverse on every item, the
\* children of a char item included
HEVItem(st, item) ==
    IF item.marker = "c" /\ Truthy(item.number)
    THEN [st EXCEPT !.currentChapter = item.number,
                    !.currentVerse = "",
                    !.currentContent = <<>>]
    ELSE IF item.marker = "v" /\ Truthy(item.number)
    THEN [EVStore(st) EXCEPT !.currentVerse = item.number,
                             !.currentContent = <<>>]
    ELSE IF item.marker = "f" \/ item.marker = "x"
    THEN [st EXCEPT !.inFootnoteOrXref = TRUE]
    ELSE IF st.inFootnoteOrXref /\ (item.marker = "f*" \/ item.marker = "x*")
    THEN [st EXCEPT !.inFootnoteOrXref = FALSE]
    ELSE IF ~st.inFootnoteOrXref /\ item.kind = "str"
    THEN AppendText(st, item.text)
    ELSE IF ~st.inFootnoteOrXref /\ item.type = "char"
    THEN AppendText(st, Join(item.content))
    ELSE st

RECURSIVE HEVFold(_, _)
HEVFold(st, visits) ==
    IF visits = <<>> THEN st
    ELSE HEVFold(HEVItem(st, Head(visits)), Tail(visits))

\* handler.extractVerses(): the traversal, then the final verse
USJHandler_extractVerses(usj) == EVStore(HEVFold(HEVInit, traverse(usj))).verses

\* a marker item without number and content, such as f or f*
Marker(m) == Node("", m, "", <<>>)

NoteItems ==
    {Verse("2"), Chapter("2"), Str(<<"a">>), Str(<<"b">>),
     Char("w", <<Str(<<"b">>)>>), Char("w", <<Str(<<"a">>), Str(<<"b">>)>>),
     Marker("f"), Marker("x"), Marker("f*"), Marker("x*")}

InitHandlerExtract ==
    /\ pc = "start"
    /\ source = <<>>
    /\ target \in {<<Chapter("1"), Verse("1")>> \o d :
                      d \in SeqsUpTo(NoteItems, MaxNoteLen)}
    /\ pairs = <<>>
    /\ result = NoResult
    /\ NoScan

\* new USJHandler(usj).extractVerses()
HandlerExtractVerses ==
    /\ pc = "start"
    /\ result' = USJHandler_extractVerses(target)
    /\ pc' = "handler"
    /\ UNCHANGED <<source, target, pairs, scanVars, walkVars>>

\* both extractions of the verse texts, applied to the same document
BothExtractVerses ==
    /\ pc = "start"
    /\ result' = [handler |-> USJHandler_extractVerses(target),
                  utils |-> extractVerses(target)]
    /\ pc' = "both"
    /\ UNCHANGED <<source, target, pairs, scanVars, walkVars>>

NextHandlerExtract == HandlerExtractVerses \/ BothExtractVerses

SpecHandlerExtract == InitHandlerExtract /\ [][NextHandlerExtract]_vars

----------------------------------------------------------------------------
(* Claims about USJHandler.extractVerses *)

\* the document has no f, x, f* or x* marker
NoNoteMarkers(doc) ==
    \A i \in 1..Len(traverse(doc)) :
        traverse(doc)[i].marker \notin {"f", "x", "f*", "x*"}

\* the number of v markers that announce verse v of chapter c
TimesAnnounced(doc, c, v) ==
    LET po == traverse(doc)
    IN Cardinality({i \in 1..Len(po) :
                      /\ IsMarker(po[i], "v")
                      /\ po[i].number = v
                      /\ ChapterAt(po, i) = c})

\* C33: in a document without excluded regions, the value of every verse
\* of the map whose key is announced once is the trimmed concatenation, in
\* document order, of the text leaves of the verse, each taken once: the
\* text of a char span is not inserted twice and no leaf is left out
\* because it equals the end of the buffer.
C33_EachLeafOnce ==
    (pc = "handler" /\ NoNoteMarkers(target)) =>
        \A n \in 1..Len(result) :
            LET c == result[n].key[1]
                v == result[n].key[2]
            IN TimesAnnounced(target, c, v) = 1
               => result[n].val = Trim(RegionText(target, c, v))

\* the number of f/x regions open after the first i items of a traversal:
\* f and x open a region, f* and x* close the region opened last
RECURSIVE Depth(_, _)
Depth(po, i) ==
    IF i = 0 THEN 0
    ELSE LET d == Depth(po, i - 1)
         IN IF po[i].marker \in {"f", "x"} THEN d + 1
            ELSE IF po[i].marker \in {"f*", "x*"} /\ d > 0 THEN d - 1
            ELSE d

\* the text of verse v of chapter c outside the f/x regions: the strings
\* whose closest c or v marker before them is a v marker of that verse and
\* that are met while no region is open, in document order
VisibleText(doc, c, v) ==
    LET po == traverse(doc)
        Markers(i) == {j \in 1..(i - 1) :
                         IsMarker(po[j], "c") \/ IsMarker(po[j], "v")}
        Last(i) == CHOOSE j \in Markers(i) : \A k \in Markers(i) : k <= j
        Inside(i) == /\ po[i].kind = "str"
                     /\ Markers(i) # {}
                     /\ IsMarker(po[Last(i)], "v")
                     /\ po[Last(i)].number = v
                     /\ ChapterAt(po, Last(i)) = c
                     /\ Depth(po, i - 1) = 0
        idx == SelectSeq([i \in 1..Len(po) |-> i], Inside)
    IN Flatten([k \in 1..Len(idx) |-> po[idx[k]].text])

\* every char span of the document has a single child
SingleChildSpans(doc) ==
    \A i \in 1..Len(traverse(doc)) :
        traverse(doc)[i].type = "char" => Len(traverse(doc)[i].content) = 1

\* C34: text that lies in an f/x region is excluded until the outermost
\* region is closed: in a document whose char spans have one child, the
\* value of every verse announced once is made only of the text of the
\* verse that is met while no region is open.
C34_ExcludedUntilClosed ==
    (pc = "handler" /\ SingleChildSpans(target)) =>
        \A n \in 1..Len(result) :
            LET c == result[n].key[1]
                v == result[n].key[2]
            IN TimesAnnounced(target, c, v) = 1
               => IsSubsequence(result[n].val, VisibleText(target, c, v))

\* the same for the documents in which no region is opened inside another
C34_WithoutNesting ==
    (/\ pc = "handler"
     /\ SingleChildSpans(target)
     /\ \A i \in 0..Len(traverse(target)) : Depth(traverse(target), i) <= 1) =>
        \A n \in 1..Len(result) :
            LET c == result[n].key[1]
                v == result[n].key[2]
            IN TimesAnnounced(target, c, v) = 1
               => IsSubsequence(result[n].val, VisibleText(target, c, v))

\* C39: on a document without f, x, f* and x* markers the extraction of
\* USJHandler and that of utils.js return the same map: the same keys in
\* the same order, with the same text.
C39_ExtractionsAgree ==
    (pc = "both" /\ NoNoteMarkers(target)) => result.handler = result.utils

\* the two extractions always return the same keys
C39_SameKeys ==
    (pc = "both" /\ NoNoteMarkers(target)) =>
        [i \in 1..Len(result.handler) |-> result.handler[i].key] =
        [i \in 1..Len(result.utils) |-> result.utils[i].key]
----------------------------------------------------------------------------
(* USJHandler.traverse, one callback invocation per step.  frames is the   *)
(* stack of active calls of traverse, each with its content array and the  *)
(* position of its for loop; visited lists the arguments the callback was  *)
(* invoked with, in order.                                                 *)

\* longest top-level content array of the traversal specification
MaxTreeLen == 3

Frame(content) == [content |-> content, i |-> 1]

\* mutant: the content of an item is not traversed
Enter_Never(fs, item) == fs

\* if (item.content) this.traverse(item.content, callback)
Enter(fs, item) ==
    IF item.content # <<>> THEN Append(fs, Frame(item.content)) ELSE fs

Top == frames[Len(frames)]

\* the for loop of the innermost call has an item left
HasItem == frames # <<>> /\ Top.i <= Len(Top.content)

\* handler.traverse(this.usj.content, callback)
CallTraverse ==
    /\ pc = "start"
    /\ frames' = <<Frame(target)>>
    /\ pc' = "traversing"
    /\ UNCHANGED <<source, target, pairs, result, scanVars, visited>>

\* one iteration of the for loop: the callback, then the call on the content
VisitItem ==
    /\ pc = "traversing"
    /\ HasItem
    /\ LET item == Top.content[Top.i]
       IN /\ visited' = Append(visited, item)
          /\ frames' = Enter([frames EXCEPT ![Len(frames)].i = @ + 1], item)
    /\ UNCHANGED <<pc, source, target, pairs, result, scanVars>>

\* the for loop of a nested call is over: the call returns to its caller
ReturnToCaller ==
    /\ pc = "traversing"
    /\ ~HasItem
    /\ Len(frames) > 1
    /\ frames' = SubSeq(frames, 1, Len(frames) - 1)
    /\ UNCHANGED <<pc, source, target, pairs, result, scanVars, visited>>

\* the for loop of the outermost call is over
FinishTraverse ==
    /\ pc = "traversing"
    /\ ~HasItem
    /\ Len(frames) = 1
    /\ frames' = <<>>
    /\ pc' = "traversed"
    /\ UNCHANGED <<source, target, pairs, result, scanVars, visited>>

TreeItems ==
    { Chapter("1"), Str(<<"a">>), Char("w", <<Str(<<"b">>)>>),
      Note("f", <<Char("ft", <<Str(<<NoteChar>>)>>)>>),
      Para(<<Verse("1"), Char("w", <<Str(<<"b">>)>>), Str(<<"a">>)>>) }

InitTraverse ==
    /\ pc = "start"
    /\ source = <<>>
    /\ target \in SeqsUpTo(TreeItems, MaxTreeLen)
    /\ pairs = <<>>
    /\ result = NoResult
    /\ NoScan

NextTraverse ==
    \/ CallTraverse
    \/ VisitItem
    \/ ReturnToCaller
    \/ FinishTraverse

SpecTraverse == InitTraverse /\ [][NextTraverse]_vars

\* traverse is a synchronous loop: a step that can be taken is taken
SpecTraverseLive == SpecTraverse /\ WF_vars(NextTraverse)

----------------------------------------------------------------------------
(* Claim about USJHandler.traverse *)

\* the nodes of a tree, each named by its path of positions from the root
RECURSIVE PathsOf(_)
PathsOf(content) ==
    UNION { {<<i>>} \cup {<<i>> \o p : p \in PathsOf(content[i].content)} :
            i \in 1..Len(content) }

RECURSIVE NodeAt(_, _)
NodeAt(content, path) ==
    IF Len(path) = 1 THEN content[path[1]]
    ELSE NodeAt(content[path[1]].content, Tail(path))

\* p comes before q in depth-first pre-order: p is an ancestor of q, or at
\* the first position where they differ p takes the earlier sibling
Before(p, q) ==
    \/ /\ Len(p) < Len(q)
       /\ SubSeq(q, 1, Len(p)) = p
    \/ \E k \in 1..Len(p) :
          /\ k <= Len(q)
          /\ SubSeq(p, 1, k - 1) = SubSeq(q, 1, k - 1)
          /\ p[k] < q[k]

\* the nodes in depth-first pre-order, every node once
PreOrder(doc) ==
    LET ps == PathsOf(doc)
        Rank(p) == Cardinality({q \in ps : Before(q, p)}) + 1
    IN [k \in 1..Cardinality(ps) |->
          NodeAt(doc, CHOOSE p \in ps : Rank(p) = k)]

IsPrefix(s, t) == Len(s) <= Len(t) /\ SubSeq(t, 1, Len(s)) = s

\* C13: at every moment the callback has been invoked on an initial part of
\* the nodes in depth-first pre-order, once each, and the traversal
\* eventually ends having been invoked on all of them.
C13_TraverseVisitsAll ==
    /\ [](IsPrefix(visited, PreOrder(target)))
    /\ <>(pc = "traversed" /\ visited = PreOrder(target))

\* a traversal ended on a tree whose first item has content three levels
\* deep and is followed by a sibling
C13_Witness ==
    /\ pc = "traversed"
    /\ Len(target) >= 2
    /\ target[1].type = "note"
    /\ Len(visited) >= 4

----------------------------------------------------------------------------
(* Arithmetic on doubles.  A positive double is a significand of 53 bits   *)
(* with a binary exponent.  The 52 bits after the leading one are kept as  *)
(* four limbs of 13 bits: a number <<t, a, b, c, d>> with exponent e has   *)
(* the value (t * 2^52 + a * 2^39 + b * 2^26 + c * 2^13 + d) * 2^(e - 52). *)
(* Division and multiplication round to the nearest double, ties to the    *)
(* even significand.                                                       *)

\* 2^13, the base of a limb
LimbBase == 8192

RECURSIVE Pow2(_)
Pow2(k) == IF k = 0 THEN 1 ELSE 2 * Pow2(k - 1)

Double(sig, exp) == [sig |-> sig, exp |-> exp]

\* sig + n at the lowest limb, the carries taken upwards
AddLow(sig, n) ==
    LET d == sig[5] + n
        c == sig[4] + d \div LimbBase
        b == sig[3] + c \div LimbBase
        a == sig[2] + b \div LimbBase
        t == sig[1] + a \div LimbBase
    IN <<t, a % LimbBase, b % LimbBase, c % LimbBase, d % LimbBase>>

\* the double d / s, for integers d > 0 and s > 0: the quotient is scaled
\* into [1, 2), 52 bits of its fraction are produced limb by limb, and the
\* next bit and the remainder decide the rounding
DivDouble(d, s) ==
    LET up == CHOOSE k \in 0..13 :
                 d * Pow2(k) >= s /\ (k = 0 \/ d * Pow2(k - 1) < s)
        dd == d * Pow2(up)
        down == CHOOSE j \in 0..13 :
                   s * Pow2(j) <= dd /\ s * Pow2(j + 1) > dd
        ss == s * Pow2(down)
        r0 == dd - ss
        a == (r0 * LimbBase) \div ss
        r1 == (r0 * LimbBase) % ss
        b == (r1 * LimbBase) \div ss
        r2 == (r1 * LimbBase) % ss
        c == (r2 * LimbBase) \div ss
        r3 == (r2 * LimbBase) % ss
        e == (r3 * LimbBase) \div ss
        r4 == (r3 * LimbBase) % ss
        guard == 2 * r4 >= ss
        sticky == (IF guard THEN 2 * r4 - ss ELSE 2 * r4) # 0
        roundUp == guard /\ (sticky \/ e % 2 = 1)
        sig == IF roundUp THEN AddLow(<<1, a, b, c, e>>, 1) ELSE <<1, a, b, c, e>>
    IN IF sig[1] = 2 THEN Double(<<1, 0, 0, 0, 0>>, down - up + 1)
       ELSE Double(sig, down - up)

\* the double x * 100, for x with leading limb 1: the product has 59 or 60
\* bits, of which the lowest 6 or 7 are rounded away
Times100(x) ==
    LET d == x.sig[5] * 100
        c == x.sig[4] * 100 + d \div LimbBase
        b == x.sig[3] * 100 + c \div LimbBase
        a == x.sig[2] * 100 + b \div LimbBase
        t == x.sig[1] * 100 + a \div LimbBase
        p == <<t, a % LimbBase, b % LimbBase, c % LimbBase, d % LimbBase>>
        shift == IF t >= 128 THEN 7 ELSE 6
        dropped == p[5] % Pow2(shift)
        half == Pow2(shift - 1)
        guard == dropped >= half
        sticky == dropped % half # 0
        odd == (p[5] \div Pow2(shift)) % 2 = 1
        roundUp == guard /\ (sticky \/ odd)
        kept == <<p[1], p[2], p[3], p[4], p[5] - dropped>>
    IN Double(IF roundUp THEN AddLow(kept, Pow2(shift)) ELSE kept, x.exp)

\* x > n for a double x and an integer n >= 0
GreaterThanInt(x, n) ==
    LET scaled == n * Pow2(13 - x.exp)
        m == <<scaled \div LimbBase, scaled % LimbBase, 0, 0, 0>>
    IN \E i \in 1..5 :
          /\ x.sig[i] > m[i]
          /\ \A j \in 1..(i - 1) : x.sig[j] = m[j]

----------------------------------------------------------------------------
(* utils.js detectShortLongVerses *)

\* longest source and target verse texts of the verse-length specification
MaxSourceChars == 20
MaxTargetChars == 9

\* the default value of the parameter threshold
DefaultThreshold == 20

\* the parameter threshold: left out, or a number
NoThreshold == [given |-> FALSE, value |-> 0]
Threshold(n) == [given |-> TRUE, value |-> n]

ThresholdOf(param) == IF param.given THEN param.value ELSE DefaultThreshold

Abs(x) == IF x < 0 THEN 0 - x ELSE x

\* difference: null
NullDifference == <<>>

\* the string `${parseFloat(Math.abs(diffPercentage).toFixed(2))}%`, kept
\* as the two integers of the quotient it is formatted from
Percent(sourceLength, targetLength) ==
    <<"%", Abs(targetLength - sourceLength), sourceLength>>

\* Math.abs(((targetLength - sourceLength) / sourceLength) * 100) > threshold
\* for sourceLength > 0, computed on doubles; a difference of 0 gives 0
ExceedsThreshold(sourceLength, targetLength, threshold) ==
    /\ targetLength # sourceLength
    /\ GreaterThanInt(
           Times100(DivDouble(Abs(targetLength - sourceLength), sourceLength)),
           threshold)

SLVIssue(k, sourceLength, targetLength, text, difference, comment) ==
    [verse |-> k, source_length |-> sourceLength,
     target_length |-> targetLength, verse_text |-> text,
     difference |-> difference, comment |-> comment]

\* body of the loop over Object.entries(sourceVerses)
SLVEntry(entry, tgtVerses, threshold) ==
    LET sourceText == entry.val
        targetText == IF MapHas(tgtVerses, entry.key)
                      THEN MapGet(tgtVerses, entry.key) ELSE <<>>
        sourceLength == Len(Trim(sourceText))
        targetLength == Len(Trim(targetText))
    IN IF sourceLength = 0 /\ targetLength > 0
       THEN <<SLVIssue(entry.key, sourceLength, targetLength, targetText,
                       NullDifference,
                       "Source verse is empty, but target contains text.")>>
       ELSE IF sourceLength > 0 /\ targetLength = 0
       THEN <<SLVIssue(entry.key, sourceLength, targetLength, sourceText,
                       NullDifference,
                       "Target verse is empty, but source contains text.")>>
       ELSE IF /\ sourceLength > 0 /\ targetLength > 0
               /\ ExceedsThreshold(sourceLength, targetLength, threshold)
       THEN <<SLVIssue(entry.key, sourceLength, targetLength, sourceText,
                       Percent(sourceLength, targetLength),
                       IF targetLength > sourceLength
                       THEN "Target verse is too long compared to source."
                       ELSE "Target verse is too short compared to source.")>>
       ELSE <<>>

RECURSIVE SLVEntries(_, _, _)
SLVEntries(entries, tgtVerses, threshold) ==
    IF entries = <<>> THEN <<>>
    ELSE SLVEntry(Head(entries), tgtVerses, threshold)
         \o SLVEntries(Tail(entries), tgtVerses, threshold)

detectShortLongVerses(src, tgt, threshold) ==
    [threw |-> FALSE, check |-> "short_long_verses",
     issues |-> SLVEntries(extractVerses(src), extractVerses(tgt),
                           ThresholdOf(threshold))]

\* a text of n letters
Letters(n) == [i \in 1..n |-> "a"]

StatsSources ==
    {<<Chapter("1"), Verse("1"), Str(Letters(n))>> : n \in 0..MaxSourceChars}
    \cup {<<Chapter("1"), Verse("1"), Str(<<" ">> \o Letters(n))>> : n \in 0..2}
    \cup {<<Chapter("1"), Verse("1"), Str(Letters(2)),
            Verse("2"), Str(Letters(n))>> : n \in 0..2}

StatsTargets ==
    {<<Chapter("1"), Verse("1"), Str(Letters(n))>> : n \in 0..MaxTargetChars}
    \cup { <<>>,
           <<Chapter("1"), Verse("2"), Str(Letters(1))>>,
           <<Chapter("1"), Verse("1"), Str(<<" ", "a", " ">>)>>,
           <<Chapter("1"), Verse("1"), Str(Letters(2)), Verse("2")>> }

Thresholds == {NoThreshold, Threshold(50), Threshold(55)}

InitStats ==
    /\ pc = "start"
    /\ source \in StatsSources
    /\ target \in StatsTargets
    /\ pairs = <<>>
    /\ result = NoResult
    /\ NoScan

DetectShortLongVerses ==
    /\ pc = "start"
    /\ \E threshold \in Thresholds :
         result' = [arg |-> threshold]
                   @@ detectShortLongVerses(source, target, threshold)
    /\ pc' = "measured"
    /\ UNCHANGED <<source, target, pairs, scanVars, walkVars>>

NextStats == DetectShortLongVerses

SpecStats == InitStats /\ [][NextStats]_vars

----------------------------------------------------------------------------
(* Claims about detectShortLongVerses *)

\* C18: the issues of detectShortLongVerses are about verse keys of the
\* source, and a key of the source is reported if and only if exactly one
\* of the trimmed source and target texts is empty (then with a null
\* difference), or both are non-empty and |targetLen - sourceLen| * 100 /
\* sourceLen is strictly greater than the threshold (20 when none is given);
\* a key that the target lacks counts as an empty target text.
C18_ReportedIff ==
    pc = "measured" =>
        LET sv == extractVerses(source)
            tv == extractVerses(target)
            th == ThresholdOf(result.arg)
            About(k) == {i \in 1..Len(result.issues) :
                           result.issues[i].verse = k}
        IN /\ \A i \in 1..Len(result.issues) :
                 result.issues[i].verse \in MapKeys(sv)
           /\ \A k \in MapKeys(sv) :
                 LET s == Len(Trim(MapGet(sv, k)))
                     t == IF MapHas(tv, k) THEN Len(Trim(MapGet(tv, k))) ELSE 0
                     oneEmpty == (s = 0) # (t = 0)
                 IN /\ About(k) # {} <=>
                          \/ oneEmpty
                          \/ s > 0 /\ t > 0 /\ Abs(t - s) * 100 > th * s
                    /\ oneEmpty =>
                          \A i \in About(k) :
                              result.issues[i].difference = NullDifference

\* C19: every issue of detectShortLongVerses has a field type, which is
\* "empty" when one of the two texts is empty, "short" when the target is
\* the shorter text and "long" when it is the longer one.
C19_TypeField ==
    pc = "measured" =>
        \A i \in 1..Len(result.issues) :
            LET is == result.issues[i]
            IN /\ "type" \in DOMAIN is
               /\ is.type = IF is.source_length = 0 \/ is.target_length = 0
                            THEN "empty"
                            ELSE IF is.target_length < is.source_length
                            THEN "short" ELSE "long"

----------------------------------------------------------------------------
(* utils.js detectRepeatedWordsAndWhitespace *)

\* longest verse text of the repeated-word specification
MaxTextLen == 5

\* text.split(/\s+/): the parts between the runs of white space; a run at
\* the start or at the end of the text leaves an empty part there
RECURSIVE SplitWords(_, _)
SplitWords(text, word) ==
    IF text = <<>> THEN <<word>>
    ELSE IF Head(text) \in WhiteSpace
    THEN <<word>> \o SplitWords(TrimStart(text), <<>>)
    ELSE SplitWords(Tail(text), Append(word, Head(text)))

\* toLowerCase, over the letters of the model
LowerCase(ch) == CASE ch = "A" -> "a" [] ch = "B" -> "b" [] OTHER -> ch

\* the characters of the class [.,!?"()]
StrippedChars == {".", ",", "!", "?", "\"", "(", ")"}

\* word.toLowerCase().replace(/[.,!?"()]/g, '')
Cleaned(word) ==
    SelectSeq([i \in 1..Len(word) |-> LowerCase(word[i])],
              LAMBDA ch : ch \notin StrippedChars)

\* mutant: the words are compared as they are written
IsRepeat_Raw(words, i) ==
    words[i + 1] # <<>> /\ words[i + 1] = words[i + 2]

\* currentWord && currentWord === nextWord, for the index i counted from 0
IsRepeat(words, i) ==
    LET currentWord == Cleaned(words[i + 1])
        nextWord == Cleaned(words[i + 2])
    IN currentWord # <<>> /\ currentWord = nextWord

\* repeatPositions: the indices pushed by the loop, in loop order
RepeatPositions(words) ==
    SelectSeq([k \in 1..(Len(words) - 1) |-> k - 1],
              LAMBDA i : IsRepeat(words, i))

\* /\s{2,}/.test(text)
ExcessiveWhitespace(text) ==
    \E i \in 1..(Len(text) - 1) :
        text[i] \in WhiteSpace /\ text[i + 1] \in WhiteSpace

\* mutant: a match is two white-space characters, wherever they stand
WhitespacePositions_EveryPair(text) ==
    SelectSeq([k \in 1..Len(text) |-> k - 1],
              LAMBDA p : /\ p + 2 <= Len(text)
                         /\ text[p + 1] \in WhiteSpace
                         /\ text[p + 2] \in WhiteSpace)

\* match.index of the matches of /\s{2,}/g: the offset, counted from 0, at
\* which each maximal run of two or more white-space characters starts
WhitespacePositions(text) ==
    SelectSeq([k \in 1..Len(text) |-> k - 1],
              LAMBDA p : /\ p + 2 <= Len(text)
                         /\ text[p + 1] \in WhiteSpace
                         /\ text[p + 2] \in WhiteSpace
                         /\ (p = 0 \/ text[p] \notin WhiteSpace))

\* [...new Set(list)]: the first occurrence of each element is kept
RECURSIVE Distinct(_, _)
Distinct(list, seen) ==
    IF list = <<>> THEN <<>>
    ELSE (IF Head(list) \in seen THEN <<>> ELSE <<Head(list)>>)
         \o Distinct(Tail(list), seen \cup {Head(list)})

\* body of the loop over Object.entries(targetVerses)
RWEntry(entry) ==
    LET text == entry.val
        words == SplitWords(text, <<>>)
        repeatPositions == RepeatPositions(words)
        consecutiveRepeats ==
            [k \in 1..Len(repeatPositions) |->
                Cleaned(words[repeatPositions[k] + 1])]
        excessiveWhitespace == ExcessiveWhitespace(text)
    IN IF consecutiveRepeats # <<>> \/ excessiveWhitespace
       THEN <<[verse |-> entry.key,
               repeated_words |-> consecutiveRepeats,
               positions |-> repeatPositions,
               whitespace_positions |->
                   IF excessiveWhitespace THEN WhitespacePositions(text)
                   ELSE <<>>,
               whitespace_issue |-> excessiveWhitespace,
               comment |->
                   IF consecutiveRepeats # <<>>
                   THEN <<"Consecutive repeated words: ",
                          Distinct(consecutiveRepeats, {})>>
                   ELSE <<"Excessive whitespace detected">>]>>
       ELSE <<>>

RECURSIVE RWEntries(_)
RWEntries(entries) ==
    IF entries = <<>> THEN <<>>
    ELSE RWEntry(Head(entries)) \o RWEntries(Tail(entries))

detectRepeatedWordsAndWhitespace(tgt) ==
    [threw |-> FALSE, check |-> "repeated_words_and_whitespace",
     issues |-> RWEntries(extractVerses(tgt))]

RepeatChars == {"a", "A", "b", ".", " "}

\* the text named in the documentation of the checker, a text of two
\* verses, and a text with two runs of white space
RepeatExamples ==
    { <<Chapter("1"), Verse("1"),
        Str(<<"i", "l", " ", "d", "i", "t", " ", "d", "i", "t", " ",
              "b", "o", "n", "j", "o", "u", "r">>)>>,
      <<Chapter("1"), Verse("1"), Str(<<"a", " ", "b">>),
        Verse("2"), Str(<<"b", " ", "B", ".", " ", "b">>)>>,
      <<Chapter("1"), Verse("1"),
        Str(<<"a", " ", " ", "b", " ", " ", " ", "a">>)>> }

InitRepeats ==
    /\ pc = "start"
    /\ source = <<>>
    /\ target \in {<<Chapter("1"), Verse("1"), Str(text)>> :
                      text \in SeqsUpTo(RepeatChars, MaxTextLen)}
                  \cup RepeatExamples
    /\ pairs = <<>>
    /\ result = NoResult
    /\ NoScan

DetectRepeatedWordsAndWhitespace ==
    /\ pc = "start"
    /\ result' = detectRepeatedWordsAndWhitespace(target)
    /\ pc' = "scanned"
    /\ UNCHANGED <<source, target, pairs, scanVars, walkVars>>

NextRepeats == DetectRepeatedWordsAndWhitespace

SpecRepeats == InitRepeats /\ [][NextRepeats]_vars

----------------------------------------------------------------------------
(* Claims about detectRepeatedWordsAndWhitespace *)

\* the words of a text, defined without splitting: the maximal runs of
\* characters that are not white space, in order of their start
WordRuns(text) ==
    LET IsStart(p) == /\ text[p] \notin WhiteSpace
                      /\ (p = 1 \/ text[p - 1] \in WhiteSpace)
        starts == SelectSeq([p \in 1..Len(text) |-> p], IsStart)
        EndOf(p) == CHOOSE q \in p..Len(text) :
                       /\ \A r \in p..q : text[r] \notin WhiteSpace
                       /\ (q = Len(text) \/ text[q + 1] \in WhiteSpace)
    IN [k \in 1..Len(starts) |-> SubSeq(text, starts[k], EndOf(starts[k]))]

\* the indices i, counted from 0 and in ascending order, at which word i
\* and word i + 1 have the same non-empty cleaned form
ExpectedRepeats(ws) ==
    SelectSeq([k \in 1..(Len(ws) - 1) |-> k - 1],
              LAMBDA i : /\ Cleaned(ws[i + 1]) # <<>>
                         /\ Cleaned(ws[i + 1]) = Cleaned(ws[i + 2]))

\* C20: for every verse, positions lists exactly the indices i at which
\* words i and i + 1 of the verse text are equal after lower-casing and
\* stripping punctuation and are not empty, and repeated_words lists, index
\* by index, the word at i in that compared form; a verse without an issue
\* has no such index.
C20_RepeatsExact ==
    pc = "scanned" =>
        LET tv == extractVerses(target)
        IN \A n \in 1..Len(tv) :
              LET ws == WordRuns(tv[n].val)
                  expected == ExpectedRepeats(ws)
                  about == {i \in 1..Len(result.issues) :
                              result.issues[i].verse = tv[n].key}
              IN /\ about = {} => expected = <<>>
                 /\ \A i \in about :
                       /\ result.issues[i].positions = expected
                       /\ result.issues[i].repeated_words =
                              [k \in 1..Len(expected) |->
                                  Cleaned(ws[expected[k] + 1])]

\* the documented text "il dit dit bonjour" was scanned: the repeated word
\* is "dit", at index 1
C20_Witness ==
    /\ pc = "scanned"
    /\ Len(result.issues) = 1
    /\ Len(target[3].text) = 18
    /\ result.issues[1].repeated_words = <<<<"d", "i", "t">>>>
    /\ result.issues[1].positions = <<1>>

\* the maximal runs of two or more white-space characters of a text, each
\* as the pair of its first and last offset, counted from 0
WhitespaceRuns(text) ==
    {r \in (0..(Len(text) - 1)) \X (0..(Len(text) - 1)) :
        /\ r[1] < r[2]
        /\ \A p \in r[1]..r[2] : text[p + 1] \in WhiteSpace
        /\ (r[1] = 0 \/ text[r[1]] \notin WhiteSpace)
        /\ (r[2] = Len(text) - 1 \/ text[r[2] + 2] \notin WhiteSpace)}

\* C21: for every verse, whitespace_positions holds exactly one entry per
\* maximal run of two or more white-space characters of the verse text, the
\* offset of the start of the run, in ascending order; whitespace_issue is
\* true iff there is such a run; and a verse with such a run is reported
\* whether or not it has a repeated word.
C21_WhitespaceRuns ==
    pc = "scanned" =>
        LET tv == extractVerses(target)
        IN \A n \in 1..Len(tv) :
              LET runs == WhitespaceRuns(tv[n].val)
                  about == {i \in 1..Len(result.issues) :
                              result.issues[i].verse = tv[n].key}
              IN /\ runs # {} => about # {}
                 /\ \A i \in about :
                       LET wp == result.issues[i].whitespace_positions
                       IN /\ Len(wp) = Cardinality(runs)
                          /\ {wp[k] : k \in 1..Len(wp)} =
                                 {r[1] : r \in runs}
                          /\ \A k \in 1..(Len(wp) - 1) : wp[k] < wp[k + 1]
                          /\ result.issues[i].whitespace_issue = (runs # {})

\* a text with a run of two and a run of three white-space characters and
\* no repeated word was scanned: one issue, with the offsets 1 and 4
C21_Witness ==
    /\ pc = "scanned"
    /\ Len(result.issues) = 1
    /\ result.issues[1].repeated_words = <<>>
    /\ result.issues[1].whitespace_issue
    /\ result.issues[1].whitespace_positions = <<1, 4>>

----------------------------------------------------------------------------
(* utils.js detectUnmatchedPunctuation as one call: the scan of the        *)
(* stepwise specification, folded over the characters of the verses        *)

\* one iteration of the loop over the characters of the verse k
PScanChar(st, k, ch) ==
    IF IsSymmetric(ch)
    THEN IF ~st.toggles[ch]
         THEN [st EXCEPT !.toggles[ch] = TRUE,
                         !.openVerse = IF st.stack = <<>> THEN k ELSE @,
                         !.stack = Append(@, [char |-> ch, verse |-> k])]
         ELSE [st EXCEPT !.toggles[ch] = FALSE,
                         !.stack = Pop(@),
                         !.issues = IF SymmetricMismatch(st.stack, ch)
                                    THEN Append(@, ClosingIssue(k, ch))
                                    ELSE @]
    ELSE IF IsOpening(ch)
    THEN [st EXCEPT !.openVerse = IF st.stack = <<>> THEN k ELSE @,
                    !.stack = Append(@, [char |-> ch, verse |-> k])]
    ELSE IF IsClosing(ch)
    THEN [st EXCEPT !.stack = Pop(@),
                    !.issues = IF ClosingMismatch(st.stack, ch)
                               THEN Append(@, ClosingIssue(k, ch))
                               ELSE @]
    ELSE st

RECURSIVE PScanText(_, _, _)
PScanText(st, k, text) ==
    IF text = <<>> THEN st
    ELSE PScanText(PScanChar(st, k, Head(text)), k, Tail(text))

RECURSIVE PScanVerses(_, _)
PScanVerses(st, entries) ==
    IF entries = <<>> THEN st
    ELSE PScanVerses(PScanText(st, Head(entries).key, Head(entries).val),
                     Tail(entries))

PScanInit ==
    [stack |-> <<>>, openVerse |-> NoVerse, issues |-> <<>>,
     toggles |-> [ch \in {PAIR_PUNCTUATION[i].key : i \in
                            {j \in 1..Len(PAIR_PUNCTUATION) :
                               PAIR_PUNCTUATION[j].val = PAIR_PUNCTUATION[j].key}}
                  |-> FALSE]]

detectUnmatchedPunctuation(tgt) ==
    LET st == PScanVerses(PScanInit, extractVerses(tgt))
    IN [threw |-> FALSE, check |-> "unmatched_punctuation",
        issues |-> st.issues \o Leftovers(st.stack, {}, st.openVerse)]

----------------------------------------------------------------------------
(* utils.js detectNumberMismatches *)

Digits == {"0", "1", "2", "3", "4", "5", "6", "7", "8", "9"}

\* numeralMapping: each digit with its variants, the ASCII digit and the
\* Eastern Arabic digit, which the model writes "ar0" to "ar9"
numeralMapping ==
    << [key |-> "0", val |-> <<"0", "ar0">>], [key |-> "1", val |-> <<"1", "ar1">>],
       [key |-> "2", val |-> <<"2", "ar2">>], [key |-> "3", val |-> <<"3", "ar3">>],
       [key |-> "4", val |-> <<"4", "ar4">>], [key |-> "5", val |-> <<"5", "ar5">>],
       [key |-> "6", val |-> <<"6", "ar6">>], [key |-> "7", val |-> <<"7", "ar7">>],
       [key |-> "8", val |-> <<"8", "ar8">>], [key |-> "9", val |-> <<"9", "ar9">>] >>

\* the first key whose variants include the symbol, null when there is none
normalizeNumber(symbol) ==
    LET at == {i \in 1..Len(numeralMapping) :
                 symbol \in Range(numeralMapping[i].val)}
    IN IF at = {} THEN Null
       ELSE numeralMapping[CHOOSE i \in at : \A j \in at : i <= j].key

\* the matches of /[\d٠-٩]/g, one per digit of either script, normalised;
\* filter(Boolean) drops null, which no matched character gives
extractNumbers(text) ==
    LET matches == SelectSeq(text, LAMBDA ch : normalizeNumber(ch) # Null)
    IN SelectSeq([i \in 1..Len(matches) |-> normalizeNumber(matches[i])],
                 LAMBDA n : n # Null)

\* the characters of the class \w
WordChars ==
    Digits \cup {"_"}
    \cup {"a", "b", "c", "d", "e", "f", "g", "h", "i", "j", "k", "l", "m",
          "n", "o", "p", "q", "r", "s", "t", "u", "v", "w", "x", "y", "z"}
    \cup {"A", "B", "C", "D", "E", "F", "G", "H", "I", "J", "K", "L", "M",
          "N", "O", "P", "Q", "R", "S", "T", "U", "V", "W", "X", "Y", "Z"}

\* text.matchAll(/\b\d+\b/g): the maximal runs of digits that have no word
\* character next to them, each with the offset of its start counted from 0
NumberMatches(text) ==
    LET IsStart(p) == /\ text[p] \in Digits
                      /\ (p = 1 \/ text[p - 1] \notin WordChars)
        EndOf(p) == CHOOSE q \in p..Len(text) :
                       /\ \A r \in p..q : text[r] \in Digits
                       /\ (q = Len(text) \/ text[q + 1] \notin Digits)
        Matches(p) == IsStart(p) /\ (EndOf(p) = Len(text)
                                     \/ text[EndOf(p) + 1] \notin WordChars)
        starts == SelectSeq([p \in 1..Len(text) |-> p], Matches)
    IN [k \in 1..Len(starts) |->
          [number |-> SubSeq(text, starts[k], EndOf(starts[k])),
           position |-> starts[k] - 1]]

\* numbers.find(item => item.number === num)?.position || -1
PositionOr(numbers, num) ==
    LET at == {i \in 1..Len(numbers) : numbers[i].number = num}
        first == CHOOSE i \in at : \A j \in at : i <= j
    IN IF at = {} \/ numbers[first].position = 0 THEN -1
       ELSE numbers[first].position

\* mutant: nothing is filtered out
Difference_All(numberSet, otherSet) == numberSet

\* [...numberSet].filter(num => !otherSet.has(num))
Difference(numberSet, otherSet) ==
    SelectSeq(numberSet, LAMBDA num : num \notin Range(otherSet))

\* body of the loop over Object.entries(sourceVerses)
DNMEntry(entry, tgtVerses) ==
    LET sourceText == entry.val
        sourceNumbers == NumberMatches(sourceText)
        targetText == IF MapHas(tgtVerses, entry.key)
                      THEN MapGet(tgtVerses, entry.key) ELSE <<>>
        targetNumbers == NumberMatches(targetText)
        sourceNumberSet ==
            Distinct([i \in 1..Len(sourceNumbers) |-> sourceNumbers[i].number], {})
        targetNumberSet ==
            Distinct([i \in 1..Len(targetNumbers) |-> targetNumbers[i].number], {})
        missingNumbers == Difference(sourceNumberSet, targetNumberSet)
        extraNumbers == Difference(targetNumberSet, sourceNumberSet)
    IN IF missingNumbers # <<>> \/ extraNumbers # <<>>
       THEN <<[verse |-> entry.key,
               verse_text |-> sourceText,
               missing_numbers |->
                   [i \in 1..Len(missingNumbers) |->
                       [number |-> missingNumbers[i],
                        position |-> PositionOr(sourceNumbers, missingNumbers[i])]],
               extra_numbers |->
                   [i \in 1..Len(extraNumbers) |->
                       [number |-> extraNumbers[i],
                        position |-> PositionOr(targetNumbers, extraNumbers[i])]],
               comment |-> <<"Number mismatches detected.", missingNumbers,
                             extraNumbers>>]>>
       ELSE <<>>

RECURSIVE DNMEntries(_, _)
DNMEntries(entries, tgtVerses) ==
    IF entries = <<>> THEN <<>>
    ELSE DNMEntry(Head(entries), tgtVerses) \o DNMEntries(Tail(entries), tgtVerses)

detectNumberMismatches(src, tgt) ==
    [threw |-> FALSE, check |-> "numbers_check::mismatches",
     issues |-> DNMEntries(extractVerses(src), extractVerses(tgt))]

\* longest verse text of the number specification
MaxNumLen == 3

NumberChars == {"4", "2", "a", " "}

\* verse texts with numbers in Eastern Arabic digits: 42 in the source
\* only, 9 in the target only, and 4 in both scripts in the source only
EasternExamples ==
    { [src |-> <<"a", " ", "ar4", "ar2">>, tgt |-> <<"a">>],
      [src |-> <<"a">>, tgt |-> <<"a", " ", "ar9">>],
      [src |-> <<"a", " ", "4", " ", "ar4">>, tgt |-> <<"a">>] }

\* the numbers 42 and 99 of the test of the checker at the same place of
\* the two texts, and a source of two chapters whose target lacks a verse
NumberExamples ==
    { [src |-> <<Chapter("1"), Verse("1"), Str(<<"a", " ", "4", "2", " ", "b">>)>>,
       tgt |-> <<Chapter("1"), Verse("1"), Str(<<"a", " ", "9", "9", " ", "b">>)>>],
      [src |-> <<Chapter("1"), Verse("1"), Str(<<"7">>), Verse("2"),
                 Str(<<"a", " ", "7", " ", "7">>), Chapter("2"), Verse("1"),
                 Str(<<"4">>), Verse("2"), Str(<<"a">>)>>,
       tgt |-> <<Chapter("1"), Verse("1"), Str(<<"7", " ", "8">>),
                 Chapter("2"), Verse("1"), Str(<<"4">>), Verse("2"),
                 Str(<<"a">>)>>] }
    \cup {[src |-> <<Chapter("1"), Verse("1"), Str(ex.src)>>,
           tgt |-> <<Chapter("1"), Verse("1"), Str(ex.tgt)>>] :
             ex \in EasternExamples}

InitNumbers ==
    /\ pc = "start"
    /\ \E ex \in {[src |-> <<Chapter("1"), Verse("1"), Str(st)>>,
                    tgt |-> <<Chapter("1"), Verse("1"), Str(tt)>>] :
                       st \in SeqsUpTo(NumberChars, MaxNumLen),
                       tt \in SeqsUpTo(NumberChars, MaxNumLen)}
                  \cup NumberExamples :
          source = ex.src /\ target = ex.tgt
    /\ pairs = <<>>
    /\ result = NoResult
    /\ NoScan

DetectNumberMismatches ==
    /\ pc = "start"
    /\ result' = detectNumberMismatches(source, target)
    /\ pc' = "compared"
    /\ UNCHANGED <<source, target, pairs, scanVars, walkVars>>

NextNumbers == DetectNumberMismatches

SpecNumbers == InitNumbers /\ [][NextNumbers]_vars

----------------------------------------------------------------------------
(* Claims about detectNumberMismatches *)

\* the numbers of a text as a set: the strings of digits that stand in the
\* text with no digit, letter or underscore before or after them
NumbersIn(text) ==
    {SubSeq(text, r[1], r[2]) :
        r \in {q \in (1..Len(text)) \X (1..Len(text)) :
                 /\ q[1] <= q[2]
                 /\ \A i \in q[1]..q[2] : text[i] \in Digits
                 /\ (q[1] = 1 \/ text[q[1] - 1] \notin WordChars)
                 /\ (q[2] = Len(text) \/ text[q[2] + 1] \notin WordChars)}}

\* the numbers listed in missing_numbers or extra_numbers
Listed(list) == {list[i].number : i \in 1..Len(list)}

\* C22: for every verse key of the source, with S the set of numbers of the
\* source text and T that of the target text (empty when the target lacks
\* the key), at most one issue is about the verse and there is one iff S and
\* T differ; its missing_numbers lists exactly S \ T and its extra_numbers
\* exactly T \ S, each number once, and the two have no number in common.
\* No issue is about a key that the source lacks.
C22_NumberSets ==
    pc = "compared" =>
        LET sv == extractVerses(source)
            tv == extractVerses(target)
        IN /\ \A i \in 1..Len(result.issues) :
                 MapHas(sv, result.issues[i].verse)
           /\ \A n \in 1..Len(sv) :
                 LET S == NumbersIn(sv[n].val)
                     T == IF MapHas(tv, sv[n].key)
                          THEN NumbersIn(MapGet(tv, sv[n].key)) ELSE {}
                     about == {i \in 1..Len(result.issues) :
                                 result.issues[i].verse = sv[n].key}
                 IN /\ Cardinality(about) <= 1
                    /\ about # {} <=> S # T
                    /\ \A i \in about :
                          LET missing == result.issues[i].missing_numbers
                              extra == result.issues[i].extra_numbers
                          IN /\ Listed(missing) = S \ T
                             /\ Listed(extra) = T \ S
                             /\ Len(missing) = Cardinality(S \ T)
                             /\ Len(extra) = Cardinality(T \ S)
                             /\ Listed(missing) \cap Listed(extra) = {}

\* source "a 42 b" and target "a 99 b" were compared: one issue, 42 missing
\* and 99 extra
C22_Witness ==
    /\ pc = "compared"
    /\ Len(result.issues) = 1
    /\ Listed(result.issues[1].missing_numbers) = {<<"4", "2">>}
    /\ Listed(result.issues[1].extra_numbers) = {<<"9", "9">>}

\* the offsets, counted from 0, at which the number num stands in the text
\* with no digit, letter or underscore before or after it
OffsetsOf(text, num) ==
    {p \in 0..(Len(text) - Len(num)) :
        /\ SubSeq(text, p + 1, p + Len(num)) = num
        /\ (p = 0 \/ text[p] \notin WordChars)
        /\ (p + Len(num) = Len(text) \/ text[p + Len(num) + 1] \notin WordChars)}

\* every listed number stands in the text, and its position is the least
\* offset at which it does whenever that offset is at least lo
PositionsAreFirstOffsets(list, text, lo) ==
    \A i \in 1..Len(list) :
        LET at == OffsetsOf(text, list[i].number)
        IN /\ at # {}
           /\ LET first == CHOOSE p \in at : \A q \in at : p <= q
              IN first >= lo => list[i].position = first

\* the positions of all issues are first offsets, for the offsets from lo
AllPositions(lo) ==
    LET sv == extractVerses(source)
        tv == extractVerses(target)
    IN \A k \in 1..Len(result.issues) :
          LET key_ == result.issues[k].verse
              targetText == IF MapHas(tv, key_) THEN MapGet(tv, key_) ELSE <<>>
          IN /\ PositionsAreFirstOffsets(result.issues[k].missing_numbers,
                                         MapGet(sv, key_), lo)
             /\ PositionsAreFirstOffsets(result.issues[k].extra_numbers,
                                         targetText, lo)

\* the Eastern Arabic digits
EasternDigits == {"ar0", "ar1", "ar2", "ar3", "ar4", "ar5", "ar6", "ar7",
                  "ar8", "ar9"}

\* the numbers of a text written in Eastern Arabic digits: its maximal runs
\* of such digits
EasternNumbersIn(text) ==
    {SubSeq(text, r[1], r[2]) :
        r \in {q \in (1..Len(text)) \X (1..Len(text)) :
                 /\ q[1] <= q[2]
                 /\ \A i \in q[1]..q[2] : text[i] \in EasternDigits
                 /\ (q[1] = 1 \/ text[q[1] - 1] \notin EasternDigits)
                 /\ (q[2] = Len(text) \/ text[q[2] + 1] \notin EasternDigits)}}

\* C32: a number written in Eastern Arabic digits in the source text of a
\* verse and absent from the target text is listed in missing_numbers of an
\* issue about the verse, and one written in the target text only is listed
\* in extra_numbers.
C32_EasternDigits ==
    pc = "compared" =>
        LET sv == extractVerses(source)
            tv == extractVerses(target)
        IN \A n \in 1..Len(sv) :
              LET S == EasternNumbersIn(sv[n].val)
                  T == IF MapHas(tv, sv[n].key)
                       THEN EasternNumbersIn(MapGet(tv, sv[n].key)) ELSE {}
                  about == {i \in 1..Len(result.issues) :
                              result.issues[i].verse = sv[n].key}
              IN /\ \A num \in S \ T : \E i \in about :
                       num \in Listed(result.issues[i].missing_numbers)
                 /\ \A num \in T \ S : \E i \in about :
                       num \in Listed(result.issues[i].extra_numbers)

\* extractNumbers, which detectNumberMismatches does not call, does see
\* the digits of both scripts: it returns one normalised digit per digit
C32_ExtractNumbersSeesBoth ==
    pc = "compared" =>
        LET sv == extractVerses(source)
        IN \A n \in 1..Len(sv) :
              Len(extractNumbers(sv[n].val)) =
                 Cardinality({i \in 1..Len(sv[n].val) :
                                sv[n].val[i] \in Digits \cup EasternDigits})

\* C31: the position of every missing number is the offset of its first
\* occurrence in the source text and that of every extra number the offset
\* of its first occurrence in the target text, the offset 0 included.
C31_PositionIsOffset == pc = "compared" => AllPositions(0)

\* the same, for the numbers that do not stand at the start of the text
C31_NonZeroOffsets == pc = "compared" => AllPositions(1)

----------------------------------------------------------------------------
(* checks.js runChecks and index.js checks.  A recipe item is modelled by  *)
(* its name, enabled and parameters.short_threshold; readName, description *)
(* and level are copied to the report entry unchanged and are left out.    *)

\* longest recipe of the orchestrator specification
MaxRecipeLen == 3

Check(name, enabled, parameters) ==
    [name |-> name, enabled |-> enabled, parameters |-> parameters]

\* the case labels of the switch
KnownChecks ==
    { "versestats::verse_stats", "chapterverse::integrity_check",
      "chapterverse::missing_verses",
      "textquality::repeated_words_whitespace",
      "textquality::unmatched_punctuation" }

\* the fallback of check.parameters?.short_threshold || 20
DefaultShortThreshold == 20

\* check.parameters?.short_threshold || 20: a threshold that is absent or 0
\* is replaced
ShortThreshold(check) ==
    IF check.parameters.given /\ check.parameters.value # 0
    THEN check.parameters.value ELSE DefaultShortThreshold

\* a call that raises instead of returning
Raised == [threw |-> TRUE, check |-> "", issues |-> <<>>]

\* the switch, for a known name.  checks.js does not import
\* detectMissingVerses, so the call of that case raises a ReferenceError
Dispatch(check, src, tgt) ==
    CASE check.name = "versestats::verse_stats" ->
           detectShortLongVerses(src, tgt, Threshold(ShortThreshold(check)))
      [] check.name = "chapterverse::integrity_check" ->
           checkChapterVerseIntegrity(src, tgt)
      [] check.name = "chapterverse::missing_verses" -> Raised
      [] check.name = "textquality::repeated_words_whitespace" ->
           detectRepeatedWordsAndWhitespace(tgt)
      [] check.name = "textquality::unmatched_punctuation" ->
           detectUnmatchedPunctuation(tgt)

RCInit == [threw |-> FALSE, report |-> <<>>]

\* mutant: check.enabled is not looked at
RCItem_IgnoreEnabled(st, check, src, tgt) ==
    IF st.threw THEN st
    ELSE IF check.name \notin KnownChecks THEN st
    ELSE LET res == Dispatch(check, src, tgt)
         IN IF res.threw THEN [st EXCEPT !.threw = TRUE]
            ELSE IF Len(res.issues) > 0
            THEN [st EXCEPT !.report =
                     Append(@, [name |-> check.name, issues |-> res.issues])]
            ELSE st

\* body of the loop over the recipe; an error raised by a check leaves the
\* loop and the function
RCItem(st, check, src, tgt) ==
    IF st.threw THEN st
    ELSE IF ~check.enabled THEN st
    ELSE IF check.name \notin KnownChecks THEN st
    ELSE LET res == Dispatch(check, src, tgt)
         IN IF res.threw THEN [st EXCEPT !.threw = TRUE]
            ELSE IF Len(res.issues) > 0
            THEN [st EXCEPT !.report =
                     Append(@, [name |-> check.name, issues |-> res.issues])]
            ELSE st

RECURSIVE RCLoop(_, _, _, _)
RCLoop(st, recipe, src, tgt) ==
    IF recipe = <<>> THEN st
    ELSE RCLoop(RCItem(st, Head(recipe), src, tgt), Tail(recipe), src, tgt)

runChecks(src, tgt, recipe) ==
    LET st == RCLoop(RCInit, recipe, src, tgt)
    IN [threw |-> st.threw, checks |-> IF st.threw THEN <<>> ELSE st.report]

\* index.js checks, for arguments that parse: an error raised by runChecks
\* is caught and raised again as Error('Invalid input: ...')
checks(src, tgt, recipe) ==
    LET res == runChecks(src, tgt, recipe)
    IN IF res.threw THEN [threw |-> TRUE, checks |-> <<>>] ELSE res

\* the names of the Available Checks table of the README
AdvertisedChecks ==
    KnownChecks \cup {"numbers_check::mismatches", "footnote::quotation_mismatch"}

RecipeItems ==
    {Check(n, TRUE, NoThreshold) : n \in AdvertisedChecks}
    \cup { Check("versestats::verse_stats", FALSE, NoThreshold),
           Check("versestats::verse_stats", TRUE, Threshold(60)) }

RunSource ==
    <<Chapter("1"), Verse("1"), Str(<<"a", "b">>), Verse("2"), Str(<<"4">>)>>

\* targets: equal to the source; an unmatched parenthesis; a repeated word
\* in a longer verse; a duplicated verse; a missing verse; another number;
\* a verse before the first chapter
RunTargets ==
    { RunSource,
      <<Chapter("1"), Verse("1"), Str(<<"(", "a">>), Verse("2"), Str(<<"4">>)>>,
      <<Chapter("1"), Verse("1"), Str(<<"a", " ", "a">>),
        Verse("2"), Str(<<"4">>)>>,
      <<Chapter("1"), Verse("1"), Str(<<"a", "b">>), Verse("1"),
        Str(<<"a", "b">>), Verse("2"), Str(<<"4">>)>>,
      <<Chapter("1"), Verse("1"), Str(<<"a", "b">>)>>,
      <<Chapter("1"), Verse("1"), Str(<<"a", "b">>), Verse("2"), Str(<<"9">>)>>,
      <<Verse("1"), Str(<<"a", "b">>), Chapter("1"), Verse("2"), Str(<<"4">>)>> }

InitRun ==
    /\ pc = "start"
    /\ source = RunSource
    /\ target \in RunTargets
    /\ pairs = NullPairs
    /\ result = NoResult
    /\ NoScan

\* checks(source, target, recipe)
Checks ==
    /\ pc = "start"
    /\ \E recipe \in SeqsUpTo(RecipeItems, MaxRecipeLen) :
         result' = [arg |-> recipe] @@ checks(source, target, recipe)
    /\ pc' = "reported"
    /\ UNCHANGED <<source, target, pairs, scanVars, walkVars>>

NextRun == Checks

SpecRun == InitRun /\ [][NextRun]_vars

----------------------------------------------------------------------------
(* Claims about the orchestrator *)

\* the items of the recipe that are enabled and name a case of the switch
Dispatched(recipe) ==
    {i \in 1..Len(recipe) : recipe[i].enabled /\ recipe[i].name \in KnownChecks}

\* C15: when the check of an enabled recipe item raises, checks still
\* returns a report, and the report has an entry for every other enabled
\* item whose check finds at least one issue.
C15_ChecksIndependent ==
    pc = "reported" =>
        LET recipe == result.arg
            raising == {i \in Dispatched(recipe) :
                          Dispatch(recipe[i], source, target).threw}
        IN raising # {} =>
              /\ ~result.threw
              /\ \A j \in Dispatched(recipe) \ raising :
                    Len(Dispatch(recipe[j], source, target).issues) > 0 =>
                        \E k \in 1..Len(result.checks) :
                            result.checks[k].name = recipe[j].name

\* C16: the report that runChecks returns has one entry for each recipe
\* item that is enabled, names a known check and whose check found at least
\* one issue, in recipe order, and no other entry.
C16_ReportExact ==
    (pc = "reported" /\ ~result.threw) =>
        LET Entered(c) == /\ c.enabled
                          /\ c.name \in KnownChecks
                          /\ Len(Dispatch(c, source, target).issues) > 0
            expected == SelectSeq(result.arg, Entered)
        IN /\ Len(result.checks) = Len(expected)
           /\ \A k \in 1..Len(expected) :
                 /\ result.checks[k].name = expected[k].name
                 /\ result.checks[k].issues =
                        Dispatch(expected[k], source, target).issues

\* a recipe of a disabled check, a check without issues and two checks with
\* issues gave a report of the two, in recipe order
C16_Witness ==
    /\ pc = "reported"
    /\ ~result.threw
    /\ Len(result.arg) = 3
    /\ result.arg[1].name = "textquality::unmatched_punctuation"
    /\ result.arg[2].name = "textquality::repeated_words_whitespace"
    /\ result.arg[3].name = "versestats::verse_stats"
    /\ result.arg[3].enabled
    /\ Len(result.checks) = 2
    /\ result.checks[1].name = "textquality::repeated_words_whitespace"
    /\ result.checks[2].name = "versestats::verse_stats"

\* the issues that the check function of an advertised name finds; the
\* repository has no function for footnote::quotation_mismatch
FoundBy(check, src, tgt) ==
    CASE check.name = "versestats::verse_stats" ->
           detectShortLongVerses(src, tgt, Threshold(ShortThreshold(check))).issues
      [] check.name = "chapterverse::integrity_check" ->
           checkChapterVerseIntegrity(src, tgt).issues
      [] check.name = "chapterverse::missing_verses" ->
           detectMissingVerses(src, tgt).issues
      [] check.name = "textquality::repeated_words_whitespace" ->
           detectRepeatedWordsAndWhitespace(tgt).issues
      [] check.name = "textquality::unmatched_punctuation" ->
           detectUnmatchedPunctuation(tgt).issues
      [] check.name = "numbers_check::mismatches" ->
           detectNumberMismatches(src, tgt).issues
      [] OTHER -> <<>>

\* C17: for every enabled recipe item whose name is in the Available Checks
\* table and whose check finds at least one issue, runChecks returns a
\* report that has an entry with that name.
C17_AdvertisedDispatched ==
    pc = "reported" =>
        \A i \in 1..Len(result.arg) :
            LET c == result.arg[i]
            IN (/\ c.enabled
                /\ c.name \in AdvertisedChecks
                /\ FoundBy(c, source, target) # <<>>)
               => /\ ~result.threw
                  /\ \E k \in 1..Len(result.checks) :
                        result.checks[k].name = c.name

====
